---------------------------- MODULE Spec2Model ----------------------------
(***************************************************************************)
(* A model of virs_qr: the payload validator (virs_qr/security.py), the    *)
(* template registry and its builders (virs_qr/templates.py), and the      *)
(* image pipeline that calls them (virs_qr/generator.py, main.py).         *)
(*                                                                         *)
(* A Python str is modelled as the sequence of its characters, each        *)
(* character a one-character TLA+ string, so that searching, trimming,     *)
(* case folding and concatenation are computed as the code computes them.  *)
(***************************************************************************)
EXTENDS Integers, Sequences, FiniteSets, TLC

VARIABLES
    pc,         \* position of the caller: "idle", "returned", or a step of generate_qr
    call,       \* the operation in progress or just finished, with its arguments
    result,     \* what the finished operation returned or raised
    templates,  \* the module-level dict TEMPLATES
    patterns,   \* the module-level list _MALICIOUS_PATTERNS
    fs          \* the file system as generate_qr changes it

vars == <<pc, call, result, templates, patterns, fs>>

----------------------------------------------------------------------------
(* Characters and str methods                                              *)

UpperLetters == <<"A","B","C","D","E","F","G","H","I","J","K","L","M","N","O","P","Q","R","S","T","U","V","W","X","Y","Z">>
LowerLetters == <<"a","b","c","d","e","f","g","h","i","j","k","l","m","n","o","p","q","r","s","t","u","v","w","x","y","z">>
Digits == <<"0","1","2","3","4","5","6","7","8","9">>

Range(s) == {s[i] : i \in DOMAIN s}

\* str.isspace / the regex class \s, on the characters of the model
Whitespace == {" ", "\t", "\n", "\r", "\f"}

\* the regex class \w
WordChars == Range(UpperLetters) \cup Range(LowerLetters) \cup Range(Digits) \cup {"_"}

LowerOf == [c \in Range(UpperLetters) |->
              LowerLetters[CHOOSE i \in 1..26 : UpperLetters[i] = c]]

UpperOf == [c \in Range(LowerLetters) |->
              UpperLetters[CHOOSE i \in 1..26 : LowerLetters[i] = c]]

\* str.lower, one character
LowerChar(c) == IF c \in DOMAIN LowerOf THEN LowerOf[c] ELSE c

\* str.upper, one character
UpperChar(c) == IF c \in DOMAIN UpperOf THEN UpperOf[c] ELSE c

\* str.lower
Lower(s) == [i \in 1..Len(s) |-> LowerChar(s[i])]

\* str.upper
Upper(s) == [i \in 1..Len(s) |-> UpperChar(s[i])]

\* s[i:] with a 1-based first index
From(s, i) == SubSeq(s, i, Len(s))

\* str.strip(): leading and trailing whitespace removed
Strip(s) ==
    IF \A i \in 1..Len(s) : s[i] \in Whitespace THEN <<>>
    ELSE LET first == CHOOSE i \in 1..Len(s) :
                         /\ s[i] \notin Whitespace
                         /\ \A j \in 1..(i - 1) : s[j] \in Whitespace
             last == CHOOSE i \in 1..Len(s) :
                         /\ s[i] \notin Whitespace
                         /\ \A j \in (i + 1)..Len(s) : s[j] \in Whitespace
         IN SubSeq(s, first, last)

\* the string c * n
Repeat(c, n) == [i \in 1..n |-> c]

----------------------------------------------------------------------------
(* virs_qr/security.py                                                     *)

MAX_PAYLOAD_LENGTH == 4096

\* Elements of a compiled pattern.  Lit: one literal character, compared
\* without regard to case (re.IGNORECASE).  WordBoundary: \b.  Rep: a
\* character class repeated at least min times (* is min 0, + is min 1).
Lit(c) == [t |-> "lit", c |-> c, cls |-> "", min |-> 0]
WordBoundary == [t |-> "wb", c |-> "", cls |-> "", min |-> 0]
Rep(cls, min) == [t |-> "rep", c |-> "", cls |-> cls, min |-> min]

\* a run of literal characters
Lits(s) == [i \in 1..Len(s) |-> Lit(s[i])]

\* \s, \w and [^\s]
InClass(c, cls) ==
    CASE cls = "s" -> c \in Whitespace
      [] cls = "w" -> c \in WordChars
      [] cls = "S" -> c \notin Whitespace

\* re.compile(p, re.IGNORECASE) of each source pattern, in the list's order
_compile_patterns ==
    << Lits(<<"j","a","v","a","s","c","r","i","p","t",":">>),
       Lits(<<"d","a","t","a",":","t","e","x","t","/","h","t","m","l">>),
       Lits(<<"<">>) \o <<Rep("s", 0)>> \o Lits(<<"s","c","r","i","p","t">>) \o <<WordBoundary>>,
       <<WordBoundary>> \o Lits(<<"o","n">>) \o <<Rep("w", 1), Rep("s", 0)>> \o Lits(<<"=">>),
       Lits(<<"c","m","d",".","e","x","e">>),
       Lits(<<"p","o","w","e","r","s","h","e","l","l",".","e","x","e">>),
       Lits(<<"/","e","t","c","/","p","a","s","s","w","d">>),
       <<WordBoundary>> \o Lits(<<"r","m">>) \o <<Rep("s", 1)>> \o Lits(<<"-","r","f">>) \o <<WordBoundary>>,
       <<WordBoundary>> \o Lits(<<"c","u","r","l">>) \o <<Rep("s", 1), Rep("S", 1), Rep("s", 0)>>
           \o Lits(<<"|">>) \o <<Rep("s", 0)>> \o Lits(<<"s","h">>) \o <<WordBoundary>> >>

\* the list with cmd\.exe written cmd\.exe\b
_MALICIOUS_PATTERNS_bounded ==
    [_compile_patterns EXCEPT ![5] = @ \o <<WordBoundary>>]

\* the list with \bon\w+\s*= written \bon\w*\s*=
_MALICIOUS_PATTERNS_star ==
    [_compile_patterns EXCEPT ![4] = <<WordBoundary>> \o Lits(<<"o","n">>) \o <<Rep("w", 0), Rep("s", 0)>> \o Lits(<<"=">>)]

_MALICIOUS_PATTERNS == _compile_patterns

\* \b at the gap before s[pos]: exactly one side is a word character
AtWordBoundary(s, pos) ==
    (pos > 1 /\ s[pos - 1] \in WordChars) # (pos <= Len(s) /\ s[pos] \in WordChars)

\* the number of consecutive characters of class cls from s[pos] on
RECURSIVE RunLength(_, _, _)
RunLength(s, pos, cls) ==
    IF pos <= Len(s) /\ InClass(s[pos], cls)
    THEN 1 + RunLength(s, pos + 1, cls)
    ELSE 0

\* whether elements i.. of the pattern match s from s[pos] on (a
\* backtracking match: a repetition tries every length it can take)
RECURSIVE MatchFrom(_, _, _, _)
MatchFrom(pat, i, s, pos) ==
    IF i > Len(pat) THEN TRUE
    ELSE LET it == pat[i] IN
         CASE it.t = "lit" ->
                /\ pos <= Len(s)
                /\ LowerChar(s[pos]) = LowerChar(it.c)
                /\ MatchFrom(pat, i + 1, s, pos + 1)
           [] it.t = "wb" ->
                /\ AtWordBoundary(s, pos)
                /\ MatchFrom(pat, i + 1, s, pos)
           [] it.t = "rep" ->
                \E k \in it.min..RunLength(s, pos, it.cls) :
                    MatchFrom(pat, i + 1, s, pos + k)

\* pattern.search(data) is not None
Search(pat, s) == \E pos \in 1..(Len(s) + 1) : MatchFrom(pat, 1, s, pos)

\* is_malicious_request without its length test
is_malicious_request_nolength(isStr, data) ==
    IF ~isStr THEN TRUE
    ELSE \E p \in DOMAIN patterns : Search(patterns[p], data)

\* is_malicious_request(data): isStr tells whether data is a str
is_malicious_request(isStr, data) ==
    IF ~isStr THEN TRUE
    ELSE IF Len(data) > MAX_PAYLOAD_LENGTH THEN TRUE
    ELSE \E p \in DOMAIN patterns : Search(patterns[p], data)

\* what a call returns or raises
Returned(v) == [ok |-> TRUE, exc |-> "", value |-> v]
Raised(exc, msg) == [ok |-> FALSE, exc |-> exc, value |-> msg]

\* validate_payload with the length test written len(data) >= MAX_PAYLOAD_LENGTH
validate_payload_ge(isStr, data) ==
    IF ~isStr THEN Raised("TypeError", <<"Payload must be a string">>)
    ELSE IF Strip(data) = <<>> THEN Raised("ValueError", <<"Payload cannot be empty">>)
    ELSE IF Len(data) >= MAX_PAYLOAD_LENGTH
         THEN Raised("ValueError", <<"Payload too large (max ", MAX_PAYLOAD_LENGTH,
                                     " chars, got ", Len(data), ")">>)
    ELSE IF is_malicious_request(isStr, data)
         THEN Raised("ValueError", <<"Malicious content detected">>)
    ELSE Returned(<<>>)

\* validate_payload(data)
validate_payload(isStr, data) ==
    IF ~isStr THEN Raised("TypeError", <<"Payload must be a string">>)
    ELSE IF Strip(data) = <<>> THEN Raised("ValueError", <<"Payload cannot be empty">>)
    ELSE IF Len(data) > MAX_PAYLOAD_LENGTH
         THEN Raised("ValueError", <<"Payload too large (max ", MAX_PAYLOAD_LENGTH,
                                     " chars, got ", Len(data), ")">>)
    ELSE IF is_malicious_request(isStr, data)
         THEN Raised("ValueError", <<"Malicious content detected">>)
    ELSE Returned(<<>>)

----------------------------------------------------------------------------
(* Standard-library string functions the builders call                     *)

\* the printable ASCII characters in code order, without the grave accent:
\* BelowGrave[i] has code i + 31 and AboveGrave[i] has code i + 96
BelowGrave == <<" ","!","\"","#","$","%","&","'","(",")","*","+",",","-",".","/","0","1","2","3","4","5","6","7","8","9",":",";","<","=",">","?","@","A","B","C","D","E","F","G","H","I","J","K","L","M","N","O","P","Q","R","S","T","U","V","W","X","Y","Z","[","\\","]","^","_">>
AboveGrave == <<"a","b","c","d","e","f","g","h","i","j","k","l","m","n","o","p","q","r","s","t","u","v","w","x","y","z","{","|","}","~">>

\* ord(c)
Ord(c) ==
    CASE c = "\t" -> 9
      [] c = "\n" -> 10
      [] c = "\f" -> 12
      [] c = "\r" -> 13
      [] c \in Range(BelowGrave) -> 31 + CHOOSE i \in 1..Len(BelowGrave) : BelowGrave[i] = c
      [] c \in Range(AboveGrave) -> 96 + CHOOSE i \in 1..Len(AboveGrave) : AboveGrave[i] = c

HexDigits == <<"0","1","2","3","4","5","6","7","8","9","A","B","C","D","E","F">>

\* "".join(parts[lo..hi]), by halves
RECURSIVE ConcatRange(_, _, _)
ConcatRange(parts, lo, hi) ==
    IF lo > hi THEN <<>>
    ELSE IF lo = hi THEN parts[lo]
    ELSE LET mid == (lo + hi) \div 2
         IN ConcatRange(parts, lo, mid) \o ConcatRange(parts, mid + 1, hi)

\* "".join(parts)
Concat(parts) == ConcatRange(parts, 1, Len(parts))

\* sep.join(parts)
Join(parts, sep) ==
    Concat([i \in 1..Len(parts) |-> IF i = 1 THEN parts[i] ELSE sep \o parts[i]])

\* s.find(c, start) with 1-based indices; 0 when c does not occur
Find(s, c, start) ==
    IF \E i \in start..Len(s) : s[i] = c
    THEN CHOOSE i \in start..Len(s) : s[i] = c /\ \A j \in start..(i - 1) : s[j] # c
    ELSE 0

\* s.rfind(c) with 1-based indices; 0 when c does not occur
RFind(s, c) ==
    IF \E i \in 1..Len(s) : s[i] = c
    THEN CHOOSE i \in 1..Len(s) : s[i] = c /\ \A j \in (i + 1)..Len(s) : s[j] # c
    ELSE 0

\* s.lstrip(chars)
LStrip(s, chars) ==
    IF \A i \in 1..Len(s) : s[i] \in chars THEN <<>>
    ELSE From(s, CHOOSE i \in 1..Len(s) :
                     s[i] \notin chars /\ \A j \in 1..(i - 1) : s[j] \in chars)

\* s.rstrip(chars)
RStrip(s, chars) ==
    IF \A i \in 1..Len(s) : s[i] \in chars THEN <<>>
    ELSE SubSeq(s, 1, CHOOSE i \in 1..Len(s) :
                          s[i] \notin chars /\ \A j \in (i + 1)..Len(s) : s[j] \in chars)

\* s.startswith(prefix)
StartsWith(s, prefix) ==
    Len(s) >= Len(prefix) /\ SubSeq(s, 1, Len(prefix)) = prefix

\* s.removeprefix(prefix)
RemovePrefix(s, prefix) ==
    IF StartsWith(s, prefix) THEN From(s, Len(prefix) + 1) ELSE s

\* s with every occurrence of a character of chars removed
Without(s, chars) == SelectSeq(s, LAMBDA c : c \notin chars)

\* urllib.parse: the characters quote() never escapes
AlwaysSafe == Range(UpperLetters) \cup Range(LowerLetters) \cup Range(Digits)
                \cup {"_", ".", "-", "~"}

\* one character as quote() writes it
QuoteChar(c, safe) ==
    IF c \in AlwaysSafe \cup safe THEN <<c>>
    ELSE <<"%", HexDigits[(Ord(c) \div 16) + 1], HexDigits[(Ord(c) % 16) + 1]>>

\* urllib.parse.quote(s), safe="/"
quote(s) == Concat([i \in 1..Len(s) |-> QuoteChar(s[i], {"/"})])

\* urllib.parse.quote_plus(s), safe=""
quote_plus(s) ==
    Concat([i \in 1..Len(s) |-> IF s[i] = " " THEN <<"+">> ELSE QuoteChar(s[i], {})])

\* urllib.parse.urlencode(query): query is the dict's items, in insertion order
urlencode(query) ==
    Join([i \in 1..Len(query) |->
             quote_plus(query[i][1]) \o <<"=">> \o quote_plus(query[i][2])], <<"&">>)

\* urllib.parse.scheme_chars
SchemeChars == Range(UpperLetters) \cup Range(LowerLetters) \cup Range(Digits)
                \cup {"+", "-", "."}

\* urllib.parse.uses_params
UsesParams ==
    { <<>>, <<"f","t","p">>, <<"h","d","l">>, <<"p","r","o","s","p","e","r","o">>, <<"h","t","t","p">>, <<"i","m","a","p">>, <<"h","t","t","p","s">>, <<"s","h","t","t","p">>,
      <<"r","t","s","p">>, <<"r","t","s","p","s">>, <<"r","t","s","p","u">>, <<"s","i","p">>, <<"s","i","p","s">>, <<"m","m","s">>, <<"s","f","t","p">>, <<"t","e","l">> }

\* urllib.parse.uses_netloc
UsesNetloc ==
    { <<>>, <<"f","t","p">>, <<"h","t","t","p">>, <<"g","o","p","h","e","r">>, <<"n","n","t","p">>, <<"t","e","l","n","e","t">>, <<"i","m","a","p">>, <<"w","a","i","s">>,
      <<"f","i","l","e">>, <<"m","m","s">>, <<"h","t","t","p","s">>, <<"s","h","t","t","p">>, <<"s","n","e","w","s">>, <<"p","r","o","s","p","e","r","o">>, <<"r","t","s","p">>,
      <<"r","t","s","p","s">>, <<"r","t","s","p","u">>, <<"r","s","y","n","c">>, <<"s","v","n">>, <<"s","v","n","+","s","s","h">>, <<"s","f","t","p">>, <<"n","f","s">>, <<"g","i","t">>,
      <<"g","i","t","+","s","s","h">>, <<"w","s">>, <<"w","s","s">> }

\* the first index from start on of a character of "/?#", or Len(s) + 1
NetlocEnd(s, start) ==
    IF \E i \in start..Len(s) : s[i] \in {"/", "?", "#"}
    THEN CHOOSE i \in start..Len(s) :
             s[i] \in {"/", "?", "#"} /\ \A j \in start..(i - 1) : s[j] \notin {"/", "?", "#"}
    ELSE Len(s) + 1

\* urlsplit's test of a bracketed host: an IPvFuture literal, or an IPv6
\* address (taken here to be hexadecimal groups and colons, at least two colons)
BracketedHostOk(host) ==
    IF StartsWith(host, <<"v">>)
    THEN LET dot == Find(host, ".", 1)
         IN /\ dot > 2
            /\ dot < Len(host)
            /\ \A i \in 2..(dot - 1) : UpperChar(host[i]) \in Range(HexDigits)
            /\ "\n" \notin Range(host)
    ELSE /\ \A i \in 1..Len(host) : UpperChar(host[i]) \in Range(HexDigits) \cup {":"}
         /\ Cardinality({i \in 1..Len(host) : host[i] = ":"}) >= 2

\* whether urlsplit raises ValueError on this netloc
NetlocRejected(netloc) ==
    LET open == "[" \in Range(netloc)
        close == "]" \in Range(netloc)
    IN \/ open # close
       \/ /\ open
          /\ close
          /\ LET afterOpen == From(netloc, Find(netloc, "[", 1) + 1)
                 closeAt == Find(afterOpen, "]", 1)
                 host == IF closeAt = 0 THEN afterOpen ELSE SubSeq(afterOpen, 1, closeAt - 1)
             IN ~BracketedHostOk(host)

\* urlsplit, last step: the query is what follows the first "?"
SplitQuery(scheme, netloc, rest, fragment) ==
    LET qmark == Find(rest, "?", 1)
    IN [ok |-> ~NetlocRejected(netloc),
        scheme |-> scheme, netloc |-> netloc,
        path |-> IF qmark > 0 THEN SubSeq(rest, 1, qmark - 1) ELSE rest,
        params |-> <<>>,
        query |-> IF qmark > 0 THEN From(rest, qmark + 1) ELSE <<>>,
        fragment |-> fragment]

\* urlsplit, third step: the fragment is what follows the first "#"
SplitFragment(scheme, netloc, rest) ==
    LET hash == Find(rest, "#", 1)
    IN SplitQuery(scheme, netloc,
                  IF hash > 0 THEN SubSeq(rest, 1, hash - 1) ELSE rest,
                  IF hash > 0 THEN From(rest, hash + 1) ELSE <<>>)

\* urlsplit, second step: after "//" the netloc runs up to the first of "/?#"
SplitNetloc(scheme, rest) ==
    LET hasNetloc == StartsWith(rest, <<"/","/">>)
        delim == NetlocEnd(rest, 3)
    IN SplitFragment(scheme,
                     IF hasNetloc THEN SubSeq(rest, 3, delim - 1) ELSE <<>>,
                     IF hasNetloc THEN From(rest, delim) ELSE rest)

\* urlsplit, first step: a scheme is a letter followed by scheme characters
\* up to the first ":"
SplitScheme(u) ==
    LET colon == Find(u, ":", 1)
        hasScheme == /\ colon > 1
                     /\ u[1] \in Range(UpperLetters) \cup Range(LowerLetters)
                     /\ \A i \in 1..(colon - 1) : u[i] \in SchemeChars
    IN SplitNetloc(IF hasScheme THEN Lower(SubSeq(u, 1, colon - 1)) ELSE <<>>,
                   IF hasScheme THEN From(u, colon + 1) ELSE u)

\* urllib.parse.urlsplit(url); ok is FALSE where urlsplit raises ValueError
urlsplit(url) == SplitScheme(Without(LStrip(url, Whitespace), {"\t", "\r", "\n"}))

\* urlparse's _splitparams: the ;params of the last path segment
SplitParams(r) ==
    LET slash == RFind(r.path, "/")
        semi == IF slash > 0 THEN Find(r.path, ";", slash) ELSE Find(r.path, ";", 1)
    IN IF r.scheme \in UsesParams /\ semi > 0
       THEN [r EXCEPT !.path = SubSeq(r.path, 1, semi - 1),
                      !.params = From(r.path, semi + 1)]
       ELSE r

\* urllib.parse.urlparse(url): urlsplit, then the path's ;params split off
urlparse(url) == SplitParams(urlsplit(url))

\* urllib.parse.urlunparse(parsed)
urlunparse(r) ==
    LET url0 == IF r.params # <<>> THEN r.path \o <<";">> \o r.params ELSE r.path
        url1 == IF \/ r.netloc # <<>>
                   \/ (r.scheme # <<>> /\ r.scheme \in UsesNetloc /\ ~StartsWith(url0, <<"/","/">>))
                THEN <<"/","/">> \o r.netloc
                       \o (IF url0 # <<>> /\ url0[1] # "/" THEN <<"/">> ELSE <<>>) \o url0
                ELSE url0
        url2 == IF r.scheme # <<>> THEN r.scheme \o <<":">> \o url1 ELSE url1
        url3 == IF r.query # <<>> THEN url2 \o <<"?">> \o r.query ELSE url2
    IN IF r.fragment # <<>> THEN url3 \o <<"#">> \o r.fragment ELSE url3

----------------------------------------------------------------------------
(* json.loads and json.dumps, for JSON texts whose numbers are integers    *)
(* and whose string escapes are \" \\ \/ \n \t \r \f                       *)

JsonWhitespace == {" ", "\t", "\n", "\r"}

\* a parsed value: an atom carries its serialized text, a str its characters,
\* a list its items, a dict its keys and values in insertion order
JsonAtom(text) == [t |-> "atom", s |-> text, items |-> <<>>, keys |-> <<>>]
JsonStr(chars) == [t |-> "str", s |-> chars, items |-> <<>>, keys |-> <<>>]
JsonList(items) == [t |-> "list", s |-> <<>>, items |-> items, keys |-> <<>>]
JsonDict(keys, vals) == [t |-> "dict", s |-> <<>>, items |-> vals, keys |-> keys]

\* a scanner's result: the value and the index after it, or a failure
Scanned(val, pos) == [ok |-> TRUE, val |-> val, pos |-> pos]
ScanFailed == [ok |-> FALSE, val |-> <<>>, pos |-> 0]

\* the index of the first character from pos on that is not in chars
RECURSIVE SkipWhile(_, _, _)
SkipWhile(s, pos, chars) ==
    IF pos <= Len(s) /\ s[pos] \in chars THEN SkipWhile(s, pos + 1, chars) ELSE pos

\* whether text occurs in s at index pos
OccursAt(s, pos, text) ==
    pos + Len(text) - 1 <= Len(s) /\ SubSeq(s, pos, pos + Len(text) - 1) = text

\* the character an escape letter stands for
Unescaped(c) ==
    CASE c = "n" -> "\n" [] c = "t" -> "\t" [] c = "r" -> "\r" [] c = "f" -> "\f"
      [] OTHER -> c

\* json.decoder.scanstring from the index after the opening quote
RECURSIVE ScanString(_, _, _)
ScanString(s, pos, acc) ==
    IF pos > Len(s) THEN ScanFailed
    ELSE IF s[pos] = "\"" THEN Scanned(acc, pos + 1)
    ELSE IF s[pos] = "\\"
         THEN IF pos + 1 <= Len(s) /\ s[pos + 1] \in {"\"", "\\", "/", "n", "t", "r", "f"}
              THEN ScanString(s, pos + 2, Append(acc, Unescaped(s[pos + 1])))
              ELSE ScanFailed
    ELSE IF s[pos] \in {"\t", "\n", "\r", "\f"} THEN ScanFailed
    ELSE ScanString(s, pos + 1, Append(acc, s[pos]))

\* d[key] = val on a dict given as its keys and values
DictSet(keys, vals, key, val) ==
    IF \E i \in 1..Len(keys) : keys[i] = key
    THEN <<keys, [vals EXCEPT ![CHOOSE i \in 1..Len(keys) : keys[i] = key] = val]>>
    ELSE <<Append(keys, key), Append(vals, val)>>

\* the scanner's number match, integers only: -?(0|[1-9]\d*), read with int()
ScanInt(s, pos) ==
    LET neg == s[pos] = "-"
        d == IF neg THEN pos + 1 ELSE pos
        end == IF d <= Len(s) /\ s[d] = "0" THEN d + 1 ELSE SkipWhile(s, d, Range(Digits))
        digits == SubSeq(s, d, end - 1)
    IN IF end = d THEN ScanFailed
       ELSE Scanned(JsonAtom(IF neg /\ digits # <<"0">> THEN <<"-">> \o digits ELSE digits), end)

RECURSIVE ScanValue(_, _), ScanItems(_, _, _), ScanMembers(_, _, _, _)

\* json.scanner's scan_once at index pos
ScanValue(s, pos) ==
    IF pos > Len(s) THEN ScanFailed
    ELSE CASE s[pos] = "\"" ->
                LET r == ScanString(s, pos + 1, <<>>)
                IN IF r.ok THEN Scanned(JsonStr(r.val), r.pos) ELSE ScanFailed
           [] s[pos] = "{" ->
                LET p == SkipWhile(s, pos + 1, JsonWhitespace)
                IN IF p <= Len(s) /\ s[p] = "}" THEN Scanned(JsonDict(<<>>, <<>>), p + 1)
                   ELSE ScanMembers(s, p, <<>>, <<>>)
           [] s[pos] = "[" ->
                LET p == SkipWhile(s, pos + 1, JsonWhitespace)
                IN IF p <= Len(s) /\ s[p] = "]" THEN Scanned(JsonList(<<>>), p + 1)
                   ELSE ScanItems(s, p, <<>>)
           [] OccursAt(s, pos, <<"n","u","l","l">>) -> Scanned(JsonAtom(<<"n","u","l","l">>), pos + 4)
           [] OccursAt(s, pos, <<"t","r","u","e">>) -> Scanned(JsonAtom(<<"t","r","u","e">>), pos + 4)
           [] OccursAt(s, pos, <<"f","a","l","s","e">>) -> Scanned(JsonAtom(<<"f","a","l","s","e">>), pos + 5)
           [] OTHER ->
                LET n == ScanInt(s, pos)
                IN IF n.ok THEN n
                   ELSE IF OccursAt(s, pos, <<"N","a","N">>) THEN Scanned(JsonAtom(<<"N","a","N">>), pos + 3)
                   ELSE IF OccursAt(s, pos, <<"I","n","f","i","n","i","t","y">>)
                        THEN Scanned(JsonAtom(<<"I","n","f","i","n","i","t","y">>), pos + 8)
                   ELSE IF OccursAt(s, pos, <<"-","I","n","f","i","n","i","t","y">>)
                        THEN Scanned(JsonAtom(<<"-","I","n","f","i","n","i","t","y">>), pos + 9)
                   ELSE ScanFailed

\* JSONArray: the items from pos on, up to the closing bracket
ScanItems(s, pos, items) ==
    LET v == ScanValue(s, pos)
        p == SkipWhile(s, v.pos, JsonWhitespace)
    IN IF ~v.ok \/ p > Len(s) THEN ScanFailed
       ELSE IF s[p] = "]" THEN Scanned(JsonList(Append(items, v.val)), p + 1)
       ELSE IF s[p] = ","
            THEN ScanItems(s, SkipWhile(s, p + 1, JsonWhitespace), Append(items, v.val))
       ELSE ScanFailed

\* JSONObject: the members from pos on, up to the closing brace
ScanMembers(s, pos, keys, vals) ==
    IF pos > Len(s) \/ s[pos] # "\"" THEN ScanFailed
    ELSE LET k == ScanString(s, pos + 1, <<>>)
             colon == SkipWhile(s, k.pos, JsonWhitespace)
             v == ScanValue(s, SkipWhile(s, colon + 1, JsonWhitespace))
             p == SkipWhile(s, v.pos, JsonWhitespace)
             d == DictSet(keys, vals, k.val, v.val)
         IN IF ~k.ok \/ colon > Len(s) \/ s[colon] # ":" THEN ScanFailed
            ELSE IF ~v.ok \/ p > Len(s) THEN ScanFailed
            ELSE IF s[p] = "}" THEN Scanned(JsonDict(d[1], d[2]), p + 1)
            ELSE IF s[p] = ","
                 THEN ScanMembers(s, SkipWhile(s, p + 1, JsonWhitespace), d[1], d[2])
            ELSE ScanFailed

\* json.loads(raw): one value, with nothing but whitespace around it
json_loads(raw) ==
    LET v == ScanValue(raw, SkipWhile(raw, 1, JsonWhitespace))
    IN IF v.ok /\ SkipWhile(raw, v.pos, JsonWhitespace) = Len(raw) + 1 THEN v ELSE ScanFailed

\* one character of a str as json.dumps(ensure_ascii=False) writes it
JsonEscaped(c) ==
    CASE c = "\"" -> <<"\\", "\"">>
      [] c = "\\" -> <<"\\", "\\">>
      [] c = "\n" -> <<"\\", "n">>
      [] c = "\r" -> <<"\\", "r">>
      [] c = "\t" -> <<"\\", "t">>
      [] c = "\f" -> <<"\\", "f">>
      [] OTHER -> <<c>>

\* a str as json.dumps writes it
JsonQuoted(chars) ==
    <<"\"">> \o Concat([i \in 1..Len(chars) |-> JsonEscaped(chars[i])]) \o <<"\"">>

\* json.dumps(obj, separators=(",", ":"), ensure_ascii=False)
RECURSIVE json_dumps(_)
json_dumps(v) ==
    CASE v.t = "atom" -> v.s
      [] v.t = "str" -> JsonQuoted(v.s)
      [] v.t = "list" ->
           <<"[">> \o Join([i \in 1..Len(v.items) |-> json_dumps(v.items[i])], <<",">>)
                   \o <<"]">>
      [] v.t = "dict" ->
           <<"{">> \o Join([i \in 1..Len(v.keys) |->
                              JsonQuoted(v.keys[i]) \o <<":">> \o json_dumps(v.items[i])],
                           <<",">>)
                   \o <<"}">>

----------------------------------------------------------------------------
(* virs_qr/templates.py                                                    *)
(* A params mapping is a function from the names it holds to their values. *)

\* a test string that carries a script tag
EICAR_STRING_script == <<"<","s","c","r","i","p","t",">","E","I","C","A","R","-","S","T","A","N","D","A","R","D","-","A","N","T","I","V","I","R","U","S","-","T","E","S","T","-","F","I","L","E","<","/","s","c","r","i","p","t",">">>

EICAR_STRING == <<"X","5","O","!","P","%","@","A","P","[","4","\\","P","Z","X","5","4","(","P","^",")","7","C","C",")","7","}","$","E","I","C","A","R","-","S","T","A","N","D","A","R","D","-","A","N","T","I","V","I","R","U","S","-","T","E","S","T","-","F","I","L","E","!","$","H","+","H","*">>

Template(key, description, required_params, optional_params, builder) ==
    [key |-> key, description |-> description, required_params |-> required_params,
     optional_params |-> optional_params, builder |-> builder]

\* whether _require(params, key) raises
_require_fails(params, key) == key \notin DOMAIN params \/ params[key] = <<>>

\* _require(params, key) when it returns
_require(params, key) == params[key]

\* _optional(params, key, default): params.get(key, default)
_optional(params, key, default) == IF key \in DOMAIN params THEN params[key] ELSE default

\* a builder that calls _require on keys, in this order, and then returns
\* payload: the first failing _require raises
Built(params, keys, payload) ==
    IF \E i \in 1..Len(keys) : _require_fails(params, keys[i])
    THEN Raised("ValueError",
                <<"Missing required param: ",
                  keys[CHOOSE i \in 1..Len(keys) :
                          /\ _require_fails(params, keys[i])
                          /\ \A j \in 1..(i - 1) : ~_require_fails(params, keys[j])]>>)
    ELSE Returned(payload)

\* _ensure_scheme: if not parsed.scheme: parsed = parsed._replace(scheme=scheme)
SchemeIfNone(parsed, scheme) ==
    IF parsed.scheme = <<>> THEN [parsed EXCEPT !.scheme = scheme] ELSE parsed

\* _ensure_scheme: if parsed.scheme.lower() != scheme.lower(): replace it
SchemeIfOther(parsed, scheme) ==
    IF Lower(parsed.scheme) # Lower(scheme) THEN [parsed EXCEPT !.scheme = scheme] ELSE parsed

\* _ensure_scheme(url, scheme): urlparse raises on a malformed netloc
EnsureSchemeOf(parsed, scheme) ==
    IF ~parsed.ok THEN Raised("ValueError", <<"Invalid IPv6 URL">>)
    ELSE Returned(urlunparse(SchemeIfOther(SchemeIfNone(parsed, scheme), scheme)))

_ensure_scheme(url, scheme) == EnsureSchemeOf(urlparse(url), scheme)

\* the items of a dict literal followed by conditional insertions: an item
\* whose value is empty is left out when it is in `conditional`
Items(pairs, conditional) ==
    SelectSeq(pairs, LAMBDA kv : kv[1] \notin conditional \/ kv[2] # <<>>)

\* "?" + urlencode(query) if query else ""
QuerySuffix(query) == IF query # <<>> THEN <<"?">> \o urlencode(query) ELSE <<>>

_build_mailto(params) ==
    LET to == _require(params, "to")
        subject == _optional(params, "subject", <<>>)
        body == _optional(params, "body", <<>>)
        query == Items(<< <<<<"s","u","b","j","e","c","t">>, subject>>, <<<<"b","o","d","y">>, body>> >>, {<<"s","u","b","j","e","c","t">>, <<"b","o","d","y">>})
    IN Built(params, <<"to">>, <<"m","a","i","l","t","o",":">> \o to \o QuerySuffix(query))

_build_matmsg(params) ==
    LET to == _require(params, "to")
        subject == _optional(params, "subject", <<>>)
        body == _optional(params, "body", <<>>)
    IN Built(params, <<"to">>,
             <<"M","A","T","M","S","G",":","T","O",":">> \o to \o <<";","S","U","B",":">> \o subject \o <<";","B","O","D","Y",":">> \o body \o <<";",";">>)

_build_sms(params) ==
    LET number == _require(params, "number")
        message == _optional(params, "message", <<>>)
    IN Built(params, <<"number">>,
             IF message # <<>> THEN <<"S","M","S","T","O",":">> \o number \o <<":">> \o message
             ELSE <<"S","M","S","T","O",":">> \o number \o <<":">>)

\* _build_wifi with the P: field appended whatever auth is
_build_wifi_password(params, auth) ==
    LET ssid == _require(params, "ssid")
        password == _optional(params, "password", <<>>)
        hidden == Lower(_optional(params, "hidden", <<"f","a","l","s","e">>)) \in {<<"1">>, <<"t","r","u","e">>, <<"y","e","s">>}
        pieces == << <<"W","I","F","I",":","T",":">> \o auth \o <<";">>, <<"S",":">> \o ssid \o <<";">> >>
                    \o << <<"P",":">> \o password \o <<";">> >>
                    \o (IF hidden THEN << <<"H",":","t","r","u","e",";">> >> ELSE <<>>)
                    \o << <<";">> >>
    IN Built(params, <<"ssid">>, Concat(pieces))

_build_wifi(params, auth) ==
    LET ssid == _require(params, "ssid")
        password == _optional(params, "password", <<>>)
        hidden == Lower(_optional(params, "hidden", <<"f","a","l","s","e">>)) \in {<<"1">>, <<"t","r","u","e">>, <<"y","e","s">>}
        pieces == << <<"W","I","F","I",":","T",":">> \o auth \o <<";">>, <<"S",":">> \o ssid \o <<";">> >>
                    \o (IF auth # <<"n","o","p","a","s","s">> THEN << <<"P",":">> \o password \o <<";">> >> ELSE <<>>)
                    \o (IF hidden THEN << <<"H",":","t","r","u","e",";">> >> ELSE <<>>)
                    \o << <<";">> >>
    IN Built(params, <<"ssid">>, Concat(pieces))

\* lines.append(prefix + value + suffix) if value
LineIf(value, prefix, suffix) ==
    IF value # <<>> THEN << prefix \o value \o suffix >> ELSE <<>>

_build_vcard(params) ==
    LET name == _require(params, "name")
        phone == _optional(params, "phone", <<>>)
        email == _optional(params, "email", <<>>)
        org == _optional(params, "org", <<>>)
        title == _optional(params, "title", <<>>)
        url == _optional(params, "url", <<>>)
        address == _optional(params, "address", <<>>)
        note == _optional(params, "note", <<>>)
        lines == << <<"B","E","G","I","N",":","V","C","A","R","D">>, <<"V","E","R","S","I","O","N",":","3",".","0">>, <<"F","N",":">> \o name >>
                   \o LineIf(phone, <<"T","E","L",";","T","Y","P","E","=","C","E","L","L",":">>, <<>>)
                   \o LineIf(email, <<"E","M","A","I","L",":">>, <<>>)
                   \o LineIf(org, <<"O","R","G",":">>, <<>>)
                   \o LineIf(title, <<"T","I","T","L","E",":">>, <<>>)
                   \o LineIf(url, <<"U","R","L",":">>, <<>>)
                   \o LineIf(address, <<"A","D","R",":",";",";">>, <<";",";",";",";">>)
                   \o LineIf(note, <<"N","O","T","E",":">>, <<>>)
                   \o << <<"E","N","D",":","V","C","A","R","D">> >>
    IN Built(params, <<"name">>, Join(lines, <<"\n">>))

_build_mecard(params) ==
    LET name == _require(params, "name")
        phone == _optional(params, "phone", <<>>)
        email == _optional(params, "email", <<>>)
        url == _optional(params, "url", <<>>)
        parts == << <<"M","E","C","A","R","D",":","N",":">> \o name \o <<";">> >>
                   \o LineIf(phone, <<"T","E","L",":">>, <<";">>)
                   \o LineIf(email, <<"E","M","A","I","L",":">>, <<";">>)
                   \o LineIf(url, <<"U","R","L",":">>, <<";">>)
                   \o << <<";">> >>
    IN Built(params, <<"name">>, Concat(parts))

_build_geo(params) ==
    LET lat == _require(params, "lat")
        lon == _require(params, "lon")
        query == _optional(params, "query", <<>>)
        payload == <<"g","e","o",":">> \o lat \o <<",">> \o lon
    IN Built(params, <<"lat", "lon">>,
             IF query # <<>> THEN payload \o <<"?","q","=">> \o quote(query) ELSE payload)

_build_google_maps(params) ==
    LET lat == _require(params, "lat")
        lon == _require(params, "lon")
    IN Built(params, <<"lat", "lon">>,
             <<"h","t","t","p","s",":","/","/","w","w","w",".","g","o","o","g","l","e",".","c","o","m","/","m","a","p","s","?","q","=">> \o quote(lat) \o <<",">> \o quote(lon))

_build_ics_event(params) ==
    LET summary == _require(params, "summary")
        dtstart == _require(params, "dtstart")
        dtend == _optional(params, "dtend", <<>>)
        location == _optional(params, "location", <<>>)
        description == _optional(params, "description", <<>>)
        lines == << <<"B","E","G","I","N",":","V","C","A","L","E","N","D","A","R">>, <<"V","E","R","S","I","O","N",":","2",".","0">>, <<"B","E","G","I","N",":","V","E","V","E","N","T">>,
                    <<"S","U","M","M","A","R","Y",":">> \o summary, <<"D","T","S","T","A","R","T",":">> \o dtstart >>
                   \o LineIf(dtend, <<"D","T","E","N","D",":">>, <<>>)
                   \o LineIf(location, <<"L","O","C","A","T","I","O","N",":">>, <<>>)
                   \o LineIf(description, <<"D","E","S","C","R","I","P","T","I","O","N",":">>, <<>>)
                   \o << <<"E","N","D",":","V","E","V","E","N","T">>, <<"E","N","D",":","V","C","A","L","E","N","D","A","R">> >>
    IN Built(params, <<"summary", "dtstart">>, Join(lines, <<"\n">>))

_build_google_calendar_link(params) ==
    LET text == _require(params, "text")
        start == _require(params, "start")
        end == _require(params, "end")
        details == _optional(params, "details", <<>>)
        location == _optional(params, "location", <<>>)
        query == Items(<< <<<<"a","c","t","i","o","n">>, <<"T","E","M","P","L","A","T","E">>>>, <<<<"t","e","x","t">>, text>>,
                          <<<<"d","a","t","e","s">>, start \o <<"/">> \o end>>,
                          <<<<"d","e","t","a","i","l","s">>, details>>, <<<<"l","o","c","a","t","i","o","n">>, location>> >>,
                       {<<"d","e","t","a","i","l","s">>, <<"l","o","c","a","t","i","o","n">>})
    IN Built(params, <<"text", "start", "end">>,
             <<"h","t","t","p","s",":","/","/","c","a","l","e","n","d","a","r",".","g","o","o","g","l","e",".","c","o","m","/","c","a","l","e","n","d","a","r","/","r","e","n","d","e","r","?">> \o urlencode(query))

_build_crypto_uri(params, scheme) ==
    LET address == _require(params, "address")
        amount == _optional(params, "amount", <<>>)
        label == _optional(params, "label", <<>>)
        message == _optional(params, "message", <<>>)
        query == Items(<< <<<<"a","m","o","u","n","t">>, amount>>, <<<<"l","a","b","e","l">>, label>>,
                          <<<<"m","e","s","s","a","g","e">>, message>> >>,
                       {<<"a","m","o","u","n","t">>, <<"l","a","b","e","l">>, <<"m","e","s","s","a","g","e">>})
    IN Built(params, <<"address">>, scheme \o <<":">> \o address \o QuerySuffix(query))

_build_paypal_me(params) ==
    LET username == _require(params, "username")
        amount == _optional(params, "amount", <<>>)
        url == <<"h","t","t","p","s",":","/","/","p","a","y","p","a","l",".","m","e","/">> \o quote(username)
    IN Built(params, <<"username">>,
             IF amount # <<>> THEN url \o <<"/">> \o quote(amount) ELSE url)

_build_upi(params) ==
    LET pa == _require(params, "pa")
        pn == _require(params, "pn")
        am == _optional(params, "am", <<>>)
        tn == _optional(params, "tn", <<>>)
        cu == _optional(params, "cu", <<"I","N","R">>)
        query == Items(<< <<<<"p","a">>, pa>>, <<<<"p","n">>, pn>>, <<<<"c","u">>, cu>>,
                          <<<<"a","m">>, am>>, <<<<"t","n">>, tn>> >>,
                       {<<"a","m">>, <<"t","n">>})
    IN Built(params, <<"pa", "pn">>, <<"u","p","i",":","/","/","p","a","y","?">> \o urlencode(query))

_build_sepa(params) ==
    LET name == _require(params, "name")
        iban == _require(params, "iban")
        bic == _require(params, "bic")
        amount == _require(params, "amount")
        purpose == _optional(params, "purpose", <<>>)
        remittance == _optional(params, "remittance", <<>>)
        information == _optional(params, "information", <<>>)
        lines == << <<"B","C","D">>, <<"0","0","1">>, <<"1">>, <<"S","C","T">>, bic, name, iban, <<"E","U","R">> \o amount,
                    purpose, remittance, information >>
    IN Built(params, <<"name", "iban", "bic", "amount">>, Join(lines, <<"\n">>))

_build_social_url(params, base, key) ==
    LET handle == _require(params, key)
    IN Built(params, <<key>>, RStrip(base, {"/"}) \o <<"/">> \o quote(LStrip(handle, {"@"})))

_build_discord_invite(params) ==
    LET invite == _require(params, "invite")
    IN Built(params, <<"invite">>, <<"h","t","t","p","s",":","/","/","d","i","s","c","o","r","d",".","g","g","/">> \o quote(invite))

_build_slack_channel(params) ==
    LET channel == _require(params, "channel")
        team == _optional(params, "team", <<>>)
        query == Items(<< <<<<"c","h","a","n","n","e","l">>, channel>>, <<<<"t","e","a","m">>, team>> >>, {<<"t","e","a","m">>})
    IN Built(params, <<"channel">>, <<"h","t","t","p","s",":","/","/","s","l","a","c","k",".","c","o","m","/","a","p","p","_","r","e","d","i","r","e","c","t","?">> \o urlencode(query))

_build_zoom(params) ==
    LET meeting_id == _require(params, "meeting_id")
        pwd == _optional(params, "pwd", <<>>)
        url == <<"h","t","t","p","s",":","/","/","z","o","o","m",".","u","s","/","j","/">> \o quote(meeting_id)
    IN Built(params, <<"meeting_id">>,
             IF pwd # <<>> THEN url \o <<"?","p","w","d","=">> \o quote(pwd) ELSE url)

_build_spotify_track(params) ==
    LET track_id == _require(params, "track_id")
    IN Built(params, <<"track_id">>, <<"h","t","t","p","s",":","/","/","o","p","e","n",".","s","p","o","t","i","f","y",".","c","o","m","/","t","r","a","c","k","/">> \o quote(track_id))

_build_appstore(params) ==
    LET app_id == RemovePrefix(Lower(_require(params, "app_id")), <<"i","d">>)
    IN Built(params, <<"app_id">>, <<"h","t","t","p","s",":","/","/","a","p","p","s",".","a","p","p","l","e",".","c","o","m","/","a","p","p","/","i","d">> \o quote(app_id))

_build_googleplay(params) ==
    LET package == _require(params, "package")
    IN Built(params, <<"package">>,
             <<"h","t","t","p","s",":","/","/","p","l","a","y",".","g","o","o","g","l","e",".","c","o","m","/","s","t","o","r","e","/","a","p","p","s","/","d","e","t","a","i","l","s","?","i","d","=">> \o quote(package))

_build_deeplink(params) ==
    LET scheme == _require(params, "scheme")
        path == _require(params, "path")
        query == _optional(params, "query", <<>>)
        url == scheme \o <<":","/","/">> \o LStrip(path, {"/"})
    IN Built(params, <<"scheme", "path">>,
             IF query # <<>> THEN url \o <<"?">> \o LStrip(query, {"?"}) ELSE url)

\* _build_json returning the text as given once json.loads has accepted it
_build_json_raw(params) ==
    LET raw == _require(params, "json")
        obj == json_loads(raw)
    IN IF _require_fails(params, "json") THEN Built(params, <<"json">>, <<>>)
       ELSE IF ~obj.ok THEN Raised("JSONDecodeError", <<"Expecting value">>)
       ELSE Returned(raw)

_build_json(params) ==
    LET raw == _require(params, "json")
        obj == json_loads(raw)
    IN IF _require_fails(params, "json") THEN Built(params, <<"json">>, <<>>)
       ELSE IF ~obj.ok THEN Raised("JSONDecodeError", <<"Expecting value">>)
       ELSE Returned(json_dumps(obj.val))

_build_csv_row(params) ==
    LET values == _require(params, "values")
    IN Built(params, <<"values">>, values)

_build_markdown_link(params) ==
    LET text == _require(params, "text")
        url == _require(params, "url")
    IN Built(params, <<"text", "url">>, <<"[">> \o text \o <<"]","(">> \o url \o <<")">>)

_build_otpauth_totp(params) ==
    LET label == _require(params, "label")
        secret == _require(params, "secret")
        issuer == _optional(params, "issuer", <<>>)
        digits == _optional(params, "digits", <<"6">>)
        period == _optional(params, "period", <<"3","0">>)
        query == Items(<< <<<<"s","e","c","r","e","t">>, secret>>, <<<<"d","i","g","i","t","s">>, digits>>,
                          <<<<"p","e","r","i","o","d">>, period>>, <<<<"i","s","s","u","e","r">>, issuer>> >>,
                       {<<"i","s","s","u","e","r">>})
    IN Built(params, <<"label", "secret">>,
             <<"o","t","p","a","u","t","h",":","/","/","t","o","t","p","/">> \o quote(label) \o <<"?">> \o urlencode(query))

_build_otpauth_hotp(params) ==
    LET label == _require(params, "label")
        secret == _require(params, "secret")
        counter == _require(params, "counter")
        issuer == _optional(params, "issuer", <<>>)
        digits == _optional(params, "digits", <<"6">>)
        query == Items(<< <<<<"s","e","c","r","e","t">>, secret>>, <<<<"c","o","u","n","t","e","r">>, counter>>,
                          <<<<"d","i","g","i","t","s">>, digits>>, <<<<"i","s","s","u","e","r">>, issuer>> >>,
                       {<<"i","s","s","u","e","r">>})
    IN Built(params, <<"label", "secret", "counter">>,
             <<"o","t","p","a","u","t","h",":","/","/","h","o","t","p","/">> \o quote(label) \o <<"?">> \o urlencode(query))

_build_custom_prefix(params) ==
    LET prefix == _require(params, "prefix")
        value == _require(params, "value")
    IN Built(params, <<"prefix", "value">>, prefix \o value)

\* the url-utm lambda
_build_url_utm(params) ==
    LET base == _ensure_scheme(_require(params, "base_url"), <<"h","t","t","p","s">>)
        query == Items(<< <<<<"u","t","m","_","s","o","u","r","c","e">>, _require(params, "utm_source")>>,
                          <<<<"u","t","m","_","m","e","d","i","u","m">>, _require(params, "utm_medium")>>,
                          <<<<"u","t","m","_","c","a","m","p","a","i","g","n">>, _optional(params, "utm_campaign", <<>>)>>,
                          <<<<"u","t","m","_","t","e","r","m">>, _optional(params, "utm_term", <<>>)>>,
                          <<<<"u","t","m","_","c","o","n","t","e","n","t">>, _optional(params, "utm_content", <<>>)>> >>,
                       {<<"u","t","m","_","c","a","m","p","a","i","g","n">>, <<"u","t","m","_","t","e","r","m">>, <<"u","t","m","_","c","o","n","t","e","n","t">>})
    IN IF _require_fails(params, "base_url") THEN Built(params, <<"base_url">>, <<>>)
       ELSE IF ~base.ok THEN base
       ELSE Built(params, <<"utm_source", "utm_medium">>,
                  base.value \o <<"?">> \o urlencode(query))

\* the url-https and url-http lambdas
_build_url_scheme(params, scheme) ==
    IF _require_fails(params, "url") THEN Built(params, <<"url">>, <<>>)
    ELSE _ensure_scheme(_require(params, "url"), scheme)

\* the whatsapp lambda
_build_whatsapp(params) ==
    LET text == _optional(params, "text", <<>>)
    IN Built(params, <<"phone">>,
             <<"h","t","t","p","s",":","/","/","w","a",".","m","e","/">> \o quote(LStrip(_require(params, "phone"), {"+"}))
               \o (IF text # <<>> THEN <<"?">> \o urlencode(<< <<<<"t","e","x","t">>, text>> >>) ELSE <<>>))

\* template.builder(params): the function or lambda a template's builder names
CallBuilder(builder, p) ==
    CASE builder = "lambda_text" -> Built(p, <<"text">>, _require(p, "text"))
      [] builder = "lambda_text_uppercase" -> Built(p, <<"text">>, Upper(_require(p, "text")))
      [] builder = "lambda_text_lowercase" -> Built(p, <<"text">>, Lower(_require(p, "text")))
      [] builder = "lambda_url" -> Built(p, <<"url">>, _require(p, "url"))
      [] builder = "lambda_url_https" -> _build_url_scheme(p, <<"h","t","t","p","s">>)
      [] builder = "lambda_url_http" -> _build_url_scheme(p, <<"h","t","t","p">>)
      [] builder = "lambda_url_utm" -> _build_url_utm(p)
      [] builder = "_build_mailto" -> _build_mailto(p)
      [] builder = "_build_matmsg" -> _build_matmsg(p)
      [] builder = "lambda_phone" -> Built(p, <<"number">>, <<"t","e","l",":">> \o _require(p, "number"))
      [] builder = "_build_sms" -> _build_sms(p)
      [] builder = "lambda_whatsapp" -> _build_whatsapp(p)
      [] builder = "lambda_telegram" ->
           Built(p, <<"username">>,
                 <<"h","t","t","p","s",":","/","/","t",".","m","e","/">> \o quote(LStrip(_require(p, "username"), {"@"})))
      [] builder = "_build_geo" -> _build_geo(p)
      [] builder = "_build_google_maps" -> _build_google_maps(p)
      [] builder = "lambda_wifi_wpa" -> _build_wifi(p, <<"W","P","A">>)
      [] builder = "lambda_wifi_wpa2" -> _build_wifi(p, <<"W","P","A","2">>)
      [] builder = "lambda_wifi_wep" -> _build_wifi(p, <<"W","E","P">>)
      [] builder = "lambda_wifi_nopass" -> _build_wifi(p, <<"n","o","p","a","s","s">>)
      [] builder = "_build_vcard" -> _build_vcard(p)
      [] builder = "_build_mecard" -> _build_mecard(p)
      [] builder = "_build_ics_event" -> _build_ics_event(p)
      [] builder = "_build_google_calendar_link" -> _build_google_calendar_link(p)
      [] builder = "lambda_bitcoin" -> _build_crypto_uri(p, <<"b","i","t","c","o","i","n">>)
      [] builder = "lambda_ethereum" -> _build_crypto_uri(p, <<"e","t","h","e","r","e","u","m">>)
      [] builder = "lambda_litecoin" -> _build_crypto_uri(p, <<"l","i","t","e","c","o","i","n">>)
      [] builder = "_build_paypal_me" -> _build_paypal_me(p)
      [] builder = "_build_upi" -> _build_upi(p)
      [] builder = "_build_sepa" -> _build_sepa(p)
      [] builder = "lambda_linkedin" ->
           _build_social_url(p, <<"h","t","t","p","s",":","/","/","w","w","w",".","l","i","n","k","e","d","i","n",".","c","o","m","/","i","n">>, "handle")
      [] builder = "lambda_github" -> _build_social_url(p, <<"h","t","t","p","s",":","/","/","g","i","t","h","u","b",".","c","o","m">>, "handle")
      [] builder = "lambda_twitter" -> _build_social_url(p, <<"h","t","t","p","s",":","/","/","t","w","i","t","t","e","r",".","c","o","m">>, "handle")
      [] builder = "lambda_facebook" -> _build_social_url(p, <<"h","t","t","p","s",":","/","/","f","a","c","e","b","o","o","k",".","c","o","m">>, "handle")
      [] builder = "lambda_instagram" ->
           _build_social_url(p, <<"h","t","t","p","s",":","/","/","i","n","s","t","a","g","r","a","m",".","c","o","m">>, "handle")
      [] builder = "lambda_youtube" ->
           Built(p, <<"handle">>,
                 <<"h","t","t","p","s",":","/","/","y","o","u","t","u","b","e",".","c","o","m","/","@">> \o quote(LStrip(_require(p, "handle"), {"@"})))
      [] builder = "_build_discord_invite" -> _build_discord_invite(p)
      [] builder = "_build_slack_channel" -> _build_slack_channel(p)
      [] builder = "_build_zoom" -> _build_zoom(p)
      [] builder = "_build_spotify_track" -> _build_spotify_track(p)
      [] builder = "_build_appstore" -> _build_appstore(p)
      [] builder = "_build_googleplay" -> _build_googleplay(p)
      [] builder = "_build_deeplink" -> _build_deeplink(p)
      [] builder = "_build_json" -> _build_json(p)
      [] builder = "_build_csv_row" -> _build_csv_row(p)
      [] builder = "_build_markdown_link" -> _build_markdown_link(p)
      [] builder = "_build_otpauth_totp" -> _build_otpauth_totp(p)
      [] builder = "_build_otpauth_hotp" -> _build_otpauth_hotp(p)
      [] builder = "lambda_eicar_test" -> Returned(EICAR_STRING)
      [] builder = "lambda_safe_demo_sentry" -> Returned(<<"h","t","t","p","s",":","/","/","s","e","n","t","r","y",".","i","o">>)
      [] builder = "_build_custom_prefix" -> _build_custom_prefix(p)

\* the items of the TEMPLATES dict literal, in the order written:
\* <<dict key, Template(key, description, required_params, optional_params, builder)>>
TemplateItems ==
    <<
       <<"text", Template("text", "Plain text",
                 <<"text">>, <<>>, "lambda_text")>>,
       <<"text-uppercase", Template("text-uppercase", "Plain text uppercased",
                 <<"text">>, <<>>, "lambda_text_uppercase")>>,
       <<"text-lowercase", Template("text-lowercase", "Plain text lowercased",
                 <<"text">>, <<>>, "lambda_text_lowercase")>>,
       <<"url", Template("url", "URL (as provided)",
                 <<"url">>, <<>>, "lambda_url")>>,
       <<"url-https", Template("url-https", "Force HTTPS scheme",
                 <<"url">>, <<>>, "lambda_url_https")>>,
       <<"url-http", Template("url-http", "Force HTTP scheme",
                 <<"url">>, <<>>, "lambda_url_http")>>,
       <<"url-utm", Template("url-utm", "URL with UTM parameters",
                 <<"base_url", "utm_source", "utm_medium">>, <<"utm_campaign", "utm_term", "utm_content">>, "lambda_url_utm")>>,
       <<"email-mailto", Template("email-mailto", "Email using mailto:",
                 <<"to">>, <<"subject", "body">>, "_build_mailto")>>,
       <<"email-simple", Template("email-simple", "Email using MATMSG format",
                 <<"to">>, <<"subject", "body">>, "_build_matmsg")>>,
       <<"phone", Template("phone", "Telephone number (tel:)",
                 <<"number">>, <<>>, "lambda_phone")>>,
       <<"sms", Template("sms", "SMS (SMSTO)",
                 <<"number">>, <<"message">>, "_build_sms")>>,
       <<"whatsapp", Template("whatsapp", "WhatsApp wa.me link",
                 <<"phone">>, <<"text">>, "lambda_whatsapp")>>,
       <<"telegram", Template("telegram", "Telegram username link",
                 <<"username">>, <<>>, "lambda_telegram")>>,
       <<"geo", Template("geo", "Geo coordinates (geo: URI)",
                 <<"lat", "lon">>, <<"query">>, "_build_geo")>>,
       <<"google-maps", Template("google-maps", "Google Maps query link",
                 <<"lat", "lon">>, <<>>, "_build_google_maps")>>,
       <<"wifi-wpa", Template("wifi-wpa", "WiFi config (WPA)",
                 <<"ssid", "password">>, <<"hidden">>, "lambda_wifi_wpa")>>,
       <<"wifi-wpa2", Template("wifi-wpa2", "WiFi config (WPA2)",
                 <<"ssid", "password">>, <<"hidden">>, "lambda_wifi_wpa2")>>,
       <<"wifi-wep", Template("wifi-wep", "WiFi config (WEP)",
                 <<"ssid", "password">>, <<"hidden">>, "lambda_wifi_wep")>>,
       <<"wifi-nopass", Template("wifi-nopass", "WiFi config (open network)",
                 <<"ssid">>, <<"hidden">>, "lambda_wifi_nopass")>>,
       <<"vcard", Template("vcard", "vCard (VCF) contact",
                 <<"name">>, <<"phone", "email", "org", "title", "url", "address", "note">>, "_build_vcard")>>,
       <<"mecard", Template("mecard", "MeCard contact",
                 <<"name">>, <<"phone", "email", "url">>, "_build_mecard")>>,
       <<"event-ics", Template("event-ics", "iCalendar VEVENT",
                 <<"summary", "dtstart">>, <<"dtend", "location", "description">>, "_build_ics_event")>>,
       <<"event-google-calendar", Template("event-google-calendar", "Google Calendar template link",
                 <<"text", "start", "end">>, <<"details", "location">>, "_build_google_calendar_link")>>,
       <<"bitcoin", Template("bitcoin", "Bitcoin URI",
                 <<"address">>, <<"amount", "label", "message">>, "lambda_bitcoin")>>,
       <<"ethereum", Template("ethereum", "Ethereum URI",
                 <<"address">>, <<"amount", "label", "message">>, "lambda_ethereum")>>,
       <<"litecoin", Template("litecoin", "Litecoin URI",
                 <<"address">>, <<"amount", "label", "message">>, "lambda_litecoin")>>,
       <<"paypal-me", Template("paypal-me", "PayPal.me link",
                 <<"username">>, <<"amount">>, "_build_paypal_me")>>,
       <<"upi", Template("upi", "UPI payment URI",
                 <<"pa", "pn">>, <<"am", "tn", "cu">>, "_build_upi")>>,
       <<"sepa-credit-transfer", Template("sepa-credit-transfer", "EPC SEPA Credit Transfer payload",
                 <<"name", "iban", "bic", "amount">>, <<"purpose", "remittance", "information">>, "_build_sepa")>>,
       <<"linkedin", Template("linkedin", "LinkedIn profile",
                 <<"handle">>, <<>>, "lambda_linkedin")>>,
       <<"github", Template("github", "GitHub profile",
                 <<"handle">>, <<>>, "lambda_github")>>,
       <<"twitter", Template("twitter", "X/Twitter profile",
                 <<"handle">>, <<>>, "lambda_twitter")>>,
       <<"facebook", Template("facebook", "Facebook profile",
                 <<"handle">>, <<>>, "lambda_facebook")>>,
       <<"instagram", Template("instagram", "Instagram profile",
                 <<"handle">>, <<>>, "lambda_instagram")>>,
       <<"youtube", Template("youtube", "YouTube handle",
                 <<"handle">>, <<>>, "lambda_youtube")>>,
       <<"discord", Template("discord", "Discord invite",
                 <<"invite">>, <<>>, "_build_discord_invite")>>,
       <<"slack", Template("slack", "Slack channel redirect",
                 <<"channel">>, <<"team">>, "_build_slack_channel")>>,
       <<"zoom-meeting", Template("zoom-meeting", "Zoom meeting link",
                 <<"meeting_id">>, <<"pwd">>, "_build_zoom")>>,
       <<"spotify-track", Template("spotify-track", "Spotify track link",
                 <<"track_id">>, <<>>, "_build_spotify_track")>>,
       <<"appstore", Template("appstore", "Apple App Store link",
                 <<"app_id">>, <<>>, "_build_appstore")>>,
       <<"googleplay", Template("googleplay", "Google Play Store link",
                 <<"package">>, <<>>, "_build_googleplay")>>,
       <<"app-deeplink", Template("app-deeplink", "Custom app deep link",
                 <<"scheme", "path">>, <<"query">>, "_build_deeplink")>>,
       <<"json", Template("json", "Minified JSON (validated)",
                 <<"json">>, <<>>, "_build_json")>>,
       <<"csv-row", Template("csv-row", "CSV row as provided",
                 <<"values">>, <<>>, "_build_csv_row")>>,
       <<"markdown-link", Template("markdown-link", "Markdown link",
                 <<"text", "url">>, <<>>, "_build_markdown_link")>>,
       <<"otp-totp", Template("otp-totp", "TOTP otpauth:// URI",
                 <<"label", "secret">>, <<"issuer", "digits", "period">>, "_build_otpauth_totp")>>,
       <<"otp-hotp", Template("otp-hotp", "HOTP otpauth:// URI",
                 <<"label", "secret", "counter">>, <<"issuer", "digits">>, "_build_otpauth_hotp")>>,
       <<"eicar-test", Template("eicar-test", "EICAR standard test string (safe antivirus demo)",
                 <<>>, <<>>, "lambda_eicar_test")>>,
       <<"safe-demo-sentry", Template("safe-demo-sentry", "Safe demo URL (sentry.io)",
                 <<>>, <<>>, "lambda_safe_demo_sentry")>>,
       <<"custom-prefix", Template("custom-prefix", "Prefix + value",
                 <<"prefix", "value">>, <<>>, "_build_custom_prefix")>>
    >>

\* the dict the literal builds
TEMPLATES ==
    [k \in {TemplateItems[i][1] : i \in DOMAIN TemplateItems} |->
        TemplateItems[CHOOSE i \in DOMAIN TemplateItems : TemplateItems[i][1] = k][2]]

\* the missing list taken over every declared parameter, optional ones too
MissingParams_declared(template, params) ==
    SelectSeq(template.required_params \o template.optional_params,
              LAMBDA k : k \notin DOMAIN params \/ params[k] = <<>>)

\* [k for k in template.required_params if k not in params or params[k] == ""]
MissingParams(template, params) ==
    SelectSeq(template.required_params, LAMBDA k : k \notin DOMAIN params \/ params[k] = <<>>)

\* build_payload whose error names only the first missing parameter
build_payload_firstmissing(template_key, params) ==
    IF template_key \notin DOMAIN templates
    THEN Raised("KeyError", <<"Unknown template: ", template_key>>)
    ELSE LET template == templates[template_key]
             missing == MissingParams(template, params)
         IN IF missing # <<>>
            THEN Raised("ValueError",
                        <<"Missing required params for ", template_key, ": ", missing[1]>>)
            ELSE CallBuilder(template.builder, params)

\* build_payload with TEMPLATES.get(template_key, TEMPLATES["text"]) for the lookup
build_payload_defaulttext(template_key, params) ==
    LET template == IF template_key \in DOMAIN templates
                    THEN templates[template_key] ELSE templates["text"]
        missing == MissingParams(template, params)
    IN IF missing # <<>>
       THEN Raised("ValueError",
                   <<"Missing required params for ", template_key, ": ">>
                     \o Join([i \in 1..Len(missing) |-> <<missing[i]>>], <<", ">>))
       ELSE CallBuilder(template.builder, params)

\* build_payload passing the builder's result through validate_payload
build_payload_validated(template_key, params) ==
    IF template_key \notin DOMAIN templates
    THEN Raised("KeyError", <<"Unknown template: ", template_key>>)
    ELSE LET template == templates[template_key]
             missing == MissingParams(template, params)
             built == CallBuilder(template.builder, params)
         IN IF missing # <<>>
            THEN Raised("ValueError",
                        <<"Missing required params for ", template_key, ": ">>
                          \o Join([i \in 1..Len(missing) |-> <<missing[i]>>], <<", ">>))
            ELSE IF built.ok /\ ~validate_payload(TRUE, built.value).ok
            THEN validate_payload(TRUE, built.value)
            ELSE built

\* build_payload(template_key, params)
\* build_payload checking the params for empty values before it looks the
\* template up
build_payload_paramsfirst(template_key, params) ==
    IF \E k \in DOMAIN params : params[k] = <<>>
    THEN Raised("ValueError",
                <<"Missing required params for ", template_key, ": ",
                  CHOOSE k \in DOMAIN params : params[k] = <<>> >>)
    ELSE IF template_key \notin DOMAIN templates
    THEN Raised("KeyError", <<"Unknown template: ", template_key>>)
    ELSE LET template == templates[template_key]
             missing == MissingParams(template, params)
         IN IF missing # <<>>
            THEN Raised("ValueError",
                        <<"Missing required params for ", template_key, ": ">>
                          \o Join([i \in 1..Len(missing) |-> <<missing[i]>>], <<", ">>))
            ELSE CallBuilder(template.builder, params)

build_payload(template_key, params) ==
    IF template_key \notin DOMAIN templates
    THEN Raised("KeyError", <<"Unknown template: ", template_key>>)
    ELSE LET template == templates[template_key]
             missing == MissingParams(template, params)
         IN IF missing # <<>>
            THEN Raised("ValueError",
                        <<"Missing required params for ", template_key, ": ">>
                          \o Join([i \in 1..Len(missing) |-> <<missing[i]>>], <<", ">>))
            ELSE CallBuilder(template.builder, params)

\* The characters of a template key.  A key is held as one TLA+ string, which
\* has no parts; this gives the str that the key is.
Spelling(k) ==
    CASE k = "" -> <<>>
      [] k = "text" -> <<"t","e","x","t">>
      [] k = "text-uppercase" -> <<"t","e","x","t","-","u","p","p","e","r","c","a","s","e">>
      [] k = "text-lowercase" -> <<"t","e","x","t","-","l","o","w","e","r","c","a","s","e">>
      [] k = "url" -> <<"u","r","l">>
      [] k = "url-https" -> <<"u","r","l","-","h","t","t","p","s">>
      [] k = "url-http" -> <<"u","r","l","-","h","t","t","p">>
      [] k = "url-utm" -> <<"u","r","l","-","u","t","m">>
      [] k = "email-mailto" -> <<"e","m","a","i","l","-","m","a","i","l","t","o">>
      [] k = "email-simple" -> <<"e","m","a","i","l","-","s","i","m","p","l","e">>
      [] k = "phone" -> <<"p","h","o","n","e">>
      [] k = "sms" -> <<"s","m","s">>
      [] k = "whatsapp" -> <<"w","h","a","t","s","a","p","p">>
      [] k = "telegram" -> <<"t","e","l","e","g","r","a","m">>
      [] k = "geo" -> <<"g","e","o">>
      [] k = "google-maps" -> <<"g","o","o","g","l","e","-","m","a","p","s">>
      [] k = "wifi-wpa" -> <<"w","i","f","i","-","w","p","a">>
      [] k = "wifi-wpa2" -> <<"w","i","f","i","-","w","p","a","2">>
      [] k = "wifi-wep" -> <<"w","i","f","i","-","w","e","p">>
      [] k = "wifi-nopass" -> <<"w","i","f","i","-","n","o","p","a","s","s">>
      [] k = "vcard" -> <<"v","c","a","r","d">>
      [] k = "mecard" -> <<"m","e","c","a","r","d">>
      [] k = "event-ics" -> <<"e","v","e","n","t","-","i","c","s">>
      [] k = "event-google-calendar" -> <<"e","v","e","n","t","-","g","o","o","g","l","e","-","c","a","l","e","n","d","a","r">>
      [] k = "bitcoin" -> <<"b","i","t","c","o","i","n">>
      [] k = "ethereum" -> <<"e","t","h","e","r","e","u","m">>
      [] k = "litecoin" -> <<"l","i","t","e","c","o","i","n">>
      [] k = "paypal-me" -> <<"p","a","y","p","a","l","-","m","e">>
      [] k = "upi" -> <<"u","p","i">>
      [] k = "sepa-credit-transfer" -> <<"s","e","p","a","-","c","r","e","d","i","t","-","t","r","a","n","s","f","e","r">>
      [] k = "linkedin" -> <<"l","i","n","k","e","d","i","n">>
      [] k = "github" -> <<"g","i","t","h","u","b">>
      [] k = "twitter" -> <<"t","w","i","t","t","e","r">>
      [] k = "facebook" -> <<"f","a","c","e","b","o","o","k">>
      [] k = "instagram" -> <<"i","n","s","t","a","g","r","a","m">>
      [] k = "youtube" -> <<"y","o","u","t","u","b","e">>
      [] k = "discord" -> <<"d","i","s","c","o","r","d">>
      [] k = "slack" -> <<"s","l","a","c","k">>
      [] k = "zoom-meeting" -> <<"z","o","o","m","-","m","e","e","t","i","n","g">>
      [] k = "spotify-track" -> <<"s","p","o","t","i","f","y","-","t","r","a","c","k">>
      [] k = "appstore" -> <<"a","p","p","s","t","o","r","e">>
      [] k = "googleplay" -> <<"g","o","o","g","l","e","p","l","a","y">>
      [] k = "app-deeplink" -> <<"a","p","p","-","d","e","e","p","l","i","n","k">>
      [] k = "json" -> <<"j","s","o","n">>
      [] k = "csv-row" -> <<"c","s","v","-","r","o","w">>
      [] k = "markdown-link" -> <<"m","a","r","k","d","o","w","n","-","l","i","n","k">>
      [] k = "otp-totp" -> <<"o","t","p","-","t","o","t","p">>
      [] k = "otp-hotp" -> <<"o","t","p","-","h","o","t","p">>
      [] k = "eicar-test" -> <<"e","i","c","a","r","-","t","e","s","t">>
      [] k = "safe-demo-sentry" -> <<"s","a","f","e","-","d","e","m","o","-","s","e","n","t","r","y">>
      [] k = "custom-prefix" -> <<"c","u","s","t","o","m","-","p","r","e","f","i","x">>
      [] k = "TEXT" -> <<"T","E","X","T">>
      [] k = "text " -> <<"t","e","x","t"," ">>
      [] k = "wifi" -> <<"w","i","f","i">>

\* a < b for two str: the first differing character decides, a proper prefix is less
RECURSIVE StrLess(_, _)
StrLess(a, b) ==
    IF b = <<>> THEN FALSE
    ELSE IF a = <<>> THEN TRUE
    ELSE IF a[1] # b[1] THEN Ord(a[1]) < Ord(b[1])
    ELSE StrLess(Tail(a), Tail(b))

\* sorted(keys): the least key first, then the rest sorted
RECURSIVE sorted(_)
sorted(keys) ==
    IF keys = {} THEN <<>>
    ELSE LET least == CHOOSE k \in keys :
                         \A other \in keys \ {k} : StrLess(Spelling(k), Spelling(other))
         IN <<least>> \o sorted(keys \ {least})

\* the keys in the order the dict literal gives them
UnsortedKeys(items, keys) ==
    SelectSeq([i \in 1..Len(items) |-> items[i][1]], LAMBDA k : k \in keys)

\* list_templates without the sort: the dict's own order
list_templates_unsorted ==
    LET keys == UnsortedKeys(TemplateItems, DOMAIN templates)
    IN [i \in 1..Len(keys) |-> templates[keys[i]]]

\* list_templates()
list_templates ==
    LET keys == sorted(DOMAIN templates)
    IN [i \in 1..Len(keys) |-> templates[keys[i]]]

----------------------------------------------------------------------------
(* virs_qr/generator.py and the generate command of main.py                *)

\* the keys of _ERROR_CORRECTION_MAP
_ERROR_CORRECTION_MAP == { <<"L">>, <<"M">>, <<"Q">>, <<"H">> }

\* whether _get_error_correction(level) raises: level is "" for None
_get_error_correction_fails(level) ==
    Strip(Upper(IF level = <<>> THEN <<"H">> ELSE level)) \notin _ERROR_CORRECTION_MAP

\* pathlib's Path(path).suffix: the final component from its last dot on,
\* when that dot is neither its first nor its last character
PathSuffix(path) ==
    LET name == From(path, RFind(path, "/") + 1)
        dot == RFind(name, ".")
    IN IF 1 < dot /\ dot < Len(name) THEN From(name, dot) ELSE <<>>

\* _select_image_factory(output_path)
_select_image_factory(output_path) ==
    IF Lower(PathSuffix(output_path)) = <<".","s","v","g">> THEN "SvgImage" ELSE "None"

\* add_logo's test of size_ratio, in hundredths: not (0 < size_ratio <= 0.5)
SizeRatioRejected(ratio) == ~(0 < ratio /\ ratio <= 50)

NoFile == [exists |-> FALSE, data |-> <<>>]

\* the file img.save(filename) writes: the image of this payload
ImageOf(data) == [exists |-> TRUE, data |-> data]

----------------------------------------------------------------------------
(* The callers                                                             *)

Idle == [op |-> "none"]

MaxAffix == 1

AffixChars == {"x", " ", ";"}

\* the strings of at most n characters over a set of characters
StringsUpTo(chars, n) == UNION {[1..k -> chars] : k \in 0..n}

Affixes == StringsUpTo(AffixChars, MaxAffix)

Needles ==
    { <<"j","a","v","a","s","c","r","i","p","t",":">>, <<"J","a","v","a","S","c","r","i","p","t",":">>, <<"j","a","v","a","s","c","r","i","p","t">>,
      <<"d","a","t","a",":","t","e","x","t","/","h","t","m","l">>, <<"D","A","T","A",":","T","e","x","t","/","H","T","M","L">>, <<"d","a","t","a",":","t","e","x","t">>,
      <<"<","s","c","r","i","p","t">>, <<"<","S","C","R","I","P","T">>, <<"<"," ","s","c","r","i","p","t">>, <<"<","\t","\n","s","c","r","i","p","t">>, <<"<","s","c","r","i","p">>,
      <<"o","n","c","l","i","c","k","=">>, <<"O","N","E","R","R","O","R","=">>, <<"o","n","l","o","a","d"," ","\t","=">>, <<"o","n","_","1","=">>, <<"o","n","=">>, <<"o","n"," ","=">>,
      <<"c","m","d",".","e","x","e">>, <<"C","m","d",".","E","x","e">>, <<"c","m","d","-","e","x","e">>,
      <<"p","o","w","e","r","s","h","e","l","l",".","e","x","e">>, <<"P","o","w","e","r","S","h","e","l","l",".","E","X","E">>,
      <<"/","e","t","c","/","p","a","s","s","w","d">>, <<"/","E","T","C","/","P","A","S","S","W","D">>, <<"/","e","t","c","/","p","a","s","s","w">>,
      <<"r","m"," ","-","r","f">>, <<"R","M"," ","-","R","F">>, <<"r","m"," ","\t","-","r","f">>, <<"r","m","-","r","f">>,
      <<"c","u","r","l"," ","u"," ","|"," ","s","h">>, <<"C","U","R","L"," ","U"," ","|"," ","S","H">>, <<"c","u","r","l"," "," ","u","|","s","h">>, <<"c","u","r","l"," ","|"," ","s","h">>, <<"c","u","r","l"," ","a"," ","b"," ","|"," ","s","h">>,
      <<"h","e","l","l","o">>, <<"h","t","t","p","s",":","/","/","s","e","n","t","r","y",".","i","o">>, <<>> }

Payloads ==
    {a \o n \o b : a \in Affixes, n \in Needles, b \in Affixes}
    \cup {Repeat("a", MAX_PAYLOAD_LENGTH + d) : d \in {-1, 0, 1}}
    \cup {Repeat(" ", MAX_PAYLOAD_LENGTH + 1)}
    \cup {Repeat("a", MAX_PAYLOAD_LENGTH - 7) \o n : n \in {<<"c","m","d",".","e","x","e">>, <<"c","m","d",".","e","x","e",";">>}}

\* the values a caller gives a required parameter
RequiredValues(template_key, name) ==
    CASE name = "text" /\ template_key = "text" ->
           { <<"H","i"," ","t","h","e","r","e">>, <<"j","a","v","a","s","c","r","i","p","t",":","a","l","e","r","t","(","1",")">>, Repeat("a", MAX_PAYLOAD_LENGTH + 1) }
      [] name \in {"url", "base_url"} /\ template_key \in {"url-https", "url-http", "url-utm"} ->
           { <<"e","x","a","m","p","l","e",".","c","o","m">>, <<"h","t","t","p",":","/","/","e","x","a","m","p","l","e",".","c","o","m","/","a","?","b","=","c">>, <<"H","T","T","P","S",":","/","/","E","x","a","m","p","l","e",".","c","o","m","/">>,
             <<"e","x","a","m","p","l","e",".","c","o","m",":","8","0","8","0","/","x">>, <<"/","/","h","o","s","t","/","p",";","q","#","f">>, <<"/","/","[">> }
      [] name = "json" ->
           { <<"{","\"","a","\"",":","1",","," ","\"","b","\"",":","2","}">>, <<"{","\"","a","\"",":","1",",","\"","b","\"",":","2","}">>, <<"[","1",","," ","{","\"","k","\"",":"," ","\"","v"," ","w","\"","}","]">>,
             <<" ","-","0"," ">>, <<"n","o","t"," ","j","s","o","n">>, <<"{","\"","a","\"",":","1">>, <<"{","\"","a","\"",":","1",",","\"","a","\"",":","[","]","}">>, <<"\"","\"">> }
      [] name \in {"handle", "username", "phone"} -> { <<"@","O","c","t","o"," ","c","a","t">>, <<"+","1"," ","5","5","5">> }
      [] name = "app_id" -> { <<"I","D","4","2">>, <<"i","d">> }
      [] name = "path" -> { <<"/","/","o","p","e","n","/","i","t","e","m">>, <<"x"," ","y">> }
      [] OTHER -> { <<"A","b","1">>, <<"x"," ","y","&","z">> }

\* the non-empty values a caller gives an optional parameter
OptionalValues(template_key, name) ==
    CASE name = "hidden" -> { <<"t","r","u","e">>, <<"Y","e","s">>, <<"1">>, <<"n","o">> }
      [] name = "query" -> { <<"?","a","=","b"," ","c">> }
      [] OTHER -> { <<"o"," ","p","/","q">> }

\* the params mappings over names[i..]: each name is absent, empty or given
RECURSIVE Mappings(_, _, _, _)
Mappings(template_key, required, optional, i) ==
    IF i > Len(required) + Len(optional) THEN {<<>>}
    ELSE LET name == IF i <= Len(required) THEN required[i] ELSE optional[i - Len(required)]
             values == {<<>>} \cup (IF i <= Len(required)
                                    THEN RequiredValues(template_key, name)
                                    ELSE OptionalValues(template_key, name))
             rest == Mappings(template_key, required, optional, i + 1)
         IN rest \cup {(name :> v) @@ m : v \in values, m \in rest}

\* template keys that are not registered
UnknownKeys == {"", "TEXT", "text ", "wifi"}

\* the calls the documentation gives as examples
ExampleParams(template_key) ==
    CASE template_key = "url-utm" ->
           { ("base_url" :> <<"e","x","a","m","p","l","e",".","c","o","m">>) @@ ("utm_source" :> <<"n","e","w","s">>)
               @@ ("utm_medium" :> <<"e","m","a","i","l">>) }
      [] template_key = "wifi-wpa2" ->
           { ("ssid" :> <<"H","o","m","e">>) @@ ("password" :> <<"s","e","c","r","e","t","1">>) }
      [] template_key \in {"url-https", "url-http"} ->
           { "url" :> <<"e","x","a","m","p","l","e",".","c","o","m","/","a","?","b","=","c">>, "url" :> <<"h","t","t","p","s",":","/","/","e","x","a","m","p","l","e",".","c","o","m","/","a","?","b","=","c">>,
             "url" :> <<"h","t","t","p",":","/","/","e","x","a","m","p","l","e",".","c","o","m",":","8","0","8","0","/","x">> }
      [] OTHER -> {}

\* keys a caller may pass that the template does not declare
UndeclaredKeys(template_key) ==
    {"password", "text", "extra"}
      \ (IF template_key \in DOMAIN TEMPLATES
         THEN Range(TEMPLATES[template_key].required_params)
                \cup Range(TEMPLATES[template_key].optional_params)
         ELSE {})

\* params that hold an undeclared key, empty or not, beside the required ones
ExtraParams(template_key) ==
    LET required == IF template_key \in DOMAIN TEMPLATES
                    THEN TEMPLATES[template_key].required_params ELSE <<>>
    IN { (k :> v) @@ m : k \in UndeclaredKeys(template_key), v \in {<<>>, <<"s","3","c","r">>},
                         m \in Mappings(template_key, required, <<>>, 1) }

\* the params a caller passes with a template key
ParamsFor(template_key) ==
    ExampleParams(template_key) \cup ExtraParams(template_key)
      \cup (IF template_key \in DOMAIN TEMPLATES
            THEN Mappings(template_key, TEMPLATES[template_key].required_params,
                          TEMPLATES[template_key].optional_params, 1)
            ELSE Mappings("text", <<"text">>, <<>>, 1))

\* the payloads handed to generate_qr: those of main.py's _demo, and two
\* the validator rejects for being empty and for being too long
GqPayloads ==
    { EICAR_STRING, <<"h","t","t","p","s",":","/","/","s","e","n","t","r","y",".","i","o">>, <<"j","a","v","a","s","c","r","i","p","t",":","a","l","e","r","t","(","'","E","x","p","l","o","i","t","!","'",")">>, <<>>,
      Repeat("a", MAX_PAYLOAD_LENGTH + 1) }

Filenames == { <<"o","u","t","/","q","r",".","p","n","g">>, <<"q","r",".","s","v","g">>, <<"Q","R",".","S","V","G">> }

\* error-correction levels: "" stands for None
Levels == { <<"H">>, <<" ","q">>, <<"X">>, <<>> }

\* logo_size_ratio in hundredths
Ratios == { 0, 20, 60 }

\* --template and --param of the generate command
CmdTemplates ==
    { <<"safe-demo-sentry", <<>>>>,
      <<"text", "text" :> <<"j","a","v","a","s","c","r","i","p","t",":","a","l","e","r","t","(","1",")">>>>,
      <<"text", <<>>>>,
      <<"nope", <<>>>> }

Init ==
    /\ pc = "idle"
    /\ call = Idle
    /\ result = Returned(<<>>)
    /\ templates = TEMPLATES
    /\ patterns = _MALICIOUS_PATTERNS
    /\ fs = [dir |-> FALSE, file |-> NoFile]

CallValidatePayload ==
    /\ pc = "idle"
    /\ \E isStr \in BOOLEAN :
       \E data \in (IF isStr THEN Payloads ELSE {<<>>}) :
          /\ call' = [op |-> "validate_payload", isStr |-> isStr, data |-> data]
          /\ result' = validate_payload(isStr, data)
    /\ pc' = "returned"
    /\ UNCHANGED <<templates, patterns, fs>>

CallIsMaliciousRequest ==
    /\ pc = "idle"
    /\ \E isStr \in BOOLEAN :
       \E data \in (IF isStr THEN Payloads ELSE {<<>>}) :
          /\ call' = [op |-> "is_malicious_request", isStr |-> isStr, data |-> data]
          /\ result' = Returned(is_malicious_request(isStr, data))
    /\ pc' = "returned"
    /\ UNCHANGED <<templates, patterns, fs>>

\* build_payload deleting from params the entries whose value is ""
CallBuildPayload_normalising ==
    /\ pc = "idle"
    /\ \E template_key \in DOMAIN TEMPLATES \cup UnknownKeys :
       \E params \in ParamsFor(template_key) :
          /\ call' = [op |-> "build_payload", template_key |-> template_key,
                      params |-> [k \in {n \in DOMAIN params : params[n] # <<>>} |-> params[k]],
                      params0 |-> params]
          /\ result' = build_payload(template_key, params)
    /\ pc' = "returned"
    /\ UNCHANGED <<templates, patterns, fs>>

\* build_payload(template_key, params): params0 is the mapping as the caller
\* passed it, params the same mapping object once the call is over; neither
\* build_payload nor a builder assigns to it
CallBuildPayload ==
    /\ pc = "idle"
    /\ \E template_key \in DOMAIN TEMPLATES \cup UnknownKeys :
       \E params \in ParamsFor(template_key) :
          /\ call' = [op |-> "build_payload", template_key |-> template_key,
                      params |-> params, params0 |-> params]
          /\ result' = build_payload(template_key, params)
    /\ pc' = "returned"
    /\ UNCHANGED <<templates, patterns, fs>>

CallListTemplates ==
    /\ pc = "idle"
    /\ call' = [op |-> "list_templates"]
    /\ result' = Returned(list_templates)
    /\ pc' = "returned"
    /\ UNCHANGED <<templates, patterns, fs>>

\* generate_qr(data, filename, config=..., logo_path=..., logo_size_ratio=...)
CallGenerateQr ==
    /\ pc = "idle"
    /\ \E data \in GqPayloads, filename \in Filenames, level \in Levels, logo \in BOOLEAN :
       \E ratio \in (IF logo THEN Ratios ELSE {20}) :
          call' = [op |-> "generate_qr", cli |-> FALSE, data |-> data,
                   filename |-> filename, error_correction |-> level, logo |-> logo,
                   ratio |-> ratio, print_ascii |-> FALSE, step |-> "call", fs0 |-> fs]
    /\ pc' = "gq_validate"
    /\ UNCHANGED <<result, templates, patterns, fs>>

\* main.py generate: _cmd_generate(args), with --data or with --template
CallCmdGenerate ==
    /\ pc = "idle"
    /\ \E filename \in Filenames, level \in {<<"H">>, <<"X">>}, logo \in BOOLEAN,
          print_ascii \in BOOLEAN, useData \in BOOLEAN :
       \E data \in (IF useData THEN GqPayloads ELSE {<<>>}),
          tp \in (IF useData THEN {<<"", <<>>>>} ELSE CmdTemplates) :
          call' = [op |-> "cmd_generate", cli |-> TRUE, data |-> data,
                   filename |-> filename, error_correction |-> level, logo |-> logo,
                   ratio |-> 20, print_ascii |-> print_ascii, step |-> "call", fs0 |-> fs,
                   useData |-> useData, template |-> tp[1], param |-> tp[2]]
    /\ pc' = "cg_resolve"
    /\ UNCHANGED <<result, templates, patterns, fs>>

\* the run ends with exception r: generate_qr raises it, the command prints
\* "ERROR: ..." and returns 1
Fails(r, step) ==
    /\ result' = IF call.cli THEN Raised("exit 1", r.value) ELSE r
    /\ call' = [call EXCEPT !.step = step]
    /\ pc' = "returned"

\* _resolve_payload(args)
CgResolve ==
    /\ pc = "cg_resolve"
    /\ IF call.useData
       THEN /\ call' = [call EXCEPT !.step = "cg_resolve"]
            /\ pc' = "gq_validate"
            /\ UNCHANGED result
       ELSE LET r == build_payload(call.template, call.param)
            IN IF r.ok
               THEN /\ call' = [call EXCEPT !.data = r.value, !.step = "cg_resolve"]
                    /\ pc' = "gq_validate"
                    /\ UNCHANGED result
               ELSE Fails(r, "cg_resolve")
    /\ UNCHANGED <<templates, patterns, fs>>

\* generate_qr_image with the validator's exception swallowed: the run goes
\* on whatever the verdict
GqValidateIgnored ==
    /\ pc = "gq_validate"
    /\ call' = [call EXCEPT !.step = "gq_validate"]
    /\ pc' = "gq_encode"
    /\ UNCHANGED <<result, templates, patterns, fs>>

\* generate_qr_image: validate_payload(data)
GqValidate ==
    /\ pc = "gq_validate"
    /\ LET r == validate_payload(TRUE, call.data)
       IN IF r.ok
          THEN /\ call' = [call EXCEPT !.step = "gq_validate"]
               /\ pc' = "gq_encode"
               /\ UNCHANGED result
          ELSE Fails(r, "gq_validate")
    /\ UNCHANGED <<templates, patterns, fs>>

\* generate_qr_image after validation: the image factory, the error-correction
\* level, and the qrcode library's encoding, which may raise
GqEncode ==
    /\ pc = "gq_encode"
    /\ IF _get_error_correction_fails(call.error_correction)
       THEN Fails(Raised("ValueError", <<"error_correction must be one of: L, M, Q, H">>),
                  "gq_encode")
       ELSE \E libraryOk \in BOOLEAN :
               IF libraryOk
               THEN /\ call' = [call EXCEPT !.step = "gq_encode"]
                    /\ pc' = "gq_logo"
                    /\ UNCHANGED result
               ELSE Fails(Raised("LibraryError", <<"qrcode">>), "gq_encode")
    /\ UNCHANGED <<templates, patterns, fs>>

\* generate_qr: the logo, when one is asked for
GqLogo ==
    /\ pc = "gq_logo"
    /\ IF ~call.logo
       THEN /\ call' = [call EXCEPT !.step = "gq_logo"]
            /\ pc' = "gq_mkdir"
            /\ UNCHANGED result
       ELSE IF Lower(PathSuffix(call.filename)) = <<".","s","v","g">>
       THEN Fails(Raised("ValueError",
                         <<"Logo embedding is only supported for raster outputs (e.g. PNG)">>),
                  "gq_logo")
       ELSE IF SizeRatioRejected(call.ratio)
       THEN Fails(Raised("ValueError", <<"size_ratio must be between 0 and 0.5">>), "gq_logo")
       ELSE \E libraryOk \in BOOLEAN :
               IF libraryOk
               THEN /\ call' = [call EXCEPT !.step = "gq_logo"]
                    /\ pc' = "gq_mkdir"
                    /\ UNCHANGED result
               ELSE Fails(Raised("LibraryError", <<"PIL">>), "gq_logo")
    /\ UNCHANGED <<templates, patterns, fs>>

\* generate_qr: _ensure_parent_dir(filename), which may raise OSError
GqEnsureParentDir ==
    /\ pc = "gq_mkdir"
    /\ \E created \in BOOLEAN :
          IF created
          THEN /\ fs' = [fs EXCEPT !.dir = TRUE]
               /\ call' = [call EXCEPT !.step = "gq_mkdir"]
               /\ pc' = "gq_save"
               /\ UNCHANGED result
          ELSE /\ Fails(Raised("OSError", <<"mkdir">>), "gq_mkdir")
               /\ UNCHANGED fs
    /\ UNCHANGED <<templates, patterns>>

\* generate_qr: img.save(filename); a save that raises may leave a file behind
GqSave ==
    /\ pc = "gq_save"
    /\ \E saved \in BOOLEAN, left \in BOOLEAN :
          IF saved
          THEN /\ left
               /\ fs' = [fs EXCEPT !.file = ImageOf(call.data)]
               /\ call' = [call EXCEPT !.step = "gq_save"]
               /\ IF call.cli /\ call.print_ascii
                  THEN pc' = "cg_ascii" /\ UNCHANGED result
                  ELSE pc' = "returned" /\ result' = Returned(call.filename)
          ELSE /\ fs' = IF left THEN [fs EXCEPT !.file = ImageOf(call.data)] ELSE fs
               /\ Fails(Raised("OSError", <<"save">>), "gq_save")
    /\ UNCHANGED <<templates, patterns>>

\* _cmd_generate with --print-ascii: qr_to_ascii(payload), after the save
CgAscii ==
    /\ pc = "cg_ascii"
    /\ LET r == validate_payload(TRUE, call.data)
       IN IF ~r.ok THEN Fails(r, "cg_ascii")
          ELSE \E libraryOk \in BOOLEAN :
                  IF libraryOk
                  THEN /\ result' = Returned(call.filename)
                       /\ call' = [call EXCEPT !.step = "cg_ascii"]
                       /\ pc' = "returned"
                  ELSE Fails(Raised("LibraryError", <<"qrcode">>), "cg_ascii")
    /\ UNCHANGED <<templates, patterns, fs>>

\* the caller takes the result and is ready for its next call
Return ==
    /\ pc = "returned"
    /\ pc' = "idle"
    /\ call' = Idle
    /\ result' = Returned(<<>>)
    /\ UNCHANGED <<templates, patterns, fs>>

Next ==
    \/ CallBuildPayload
    \/ CallListTemplates
    \/ CallValidatePayload
    \/ CallIsMaliciousRequest
    \/ CallGenerateQr
    \/ CallCmdGenerate
    \/ CgResolve
    \/ GqValidate
    \/ GqEncode
    \/ GqLogo
    \/ GqEnsureParentDir
    \/ GqSave
    \/ CgAscii
    \/ Return

Spec == Init /\ [][Next]_vars

----------------------------------------------------------------------------
(* Properties of build_payload                                             *)

BuildPayloadReturned == pc = "returned" /\ call.op = "build_payload"

\* the required parameters of the called template that params leaves out or
\* maps to "", in declared order
AbsentOrEmpty ==
    SelectSeq(templates[call.template_key].required_params,
              LAMBDA k : k \notin DOMAIN call.params \/ call.params[k] = <<>>)

\* the parameter names a missing-parameter message lists after its header
NamesListed(msg) == SelectSeq(SubSeq(msg, 4, Len(msg)), LAMBDA t : t # ", ")

\* C1: for a registered template with a required parameter absent or empty,
\* build_payload raises the registry's missing-parameter error, whose message
\* lists exactly the absent-or-empty required parameters, all of them, in
\* declared order, separated by ", "; the outcome is that error and not an
\* outcome of the builder.
C1_MissingParamsAllNamed ==
    (BuildPayloadReturned /\ call.template_key \in DOMAIN templates /\ AbsentOrEmpty # <<>>)
    => /\ ~result.ok
       /\ result.exc = "ValueError"
       /\ Len(result.value) = 2 + 2 * Len(AbsentOrEmpty)
       /\ SubSeq(result.value, 1, 3)
            = <<"Missing required params for ", call.template_key, ": ">>
       /\ NamesListed(result.value) = AbsentOrEmpty
       /\ \A i \in 1..Len(AbsentOrEmpty) - 1 : result.value[3 + 2 * i] = ", "
       /\ \A k \in DOMAIN call.params :
             call.params[k] # <<>> => \A i \in 4..Len(result.value) : result.value[i] # k

\* two required parameters are missing, one absent and one empty, and another
\* required parameter is given
C1_Witness ==
    /\ BuildPayloadReturned
    /\ call.template_key \in DOMAIN templates
    /\ ~result.ok
    /\ \E a, e, g \in Range(templates[call.template_key].required_params) :
          /\ a \notin DOMAIN call.params
          /\ e \in DOMAIN call.params /\ call.params[e] = <<>>
          /\ g \in DOMAIN call.params /\ call.params[g] # <<>>
          /\ NamesListed(result.value) \in {<<a, e>>, <<e, a>>}

UnknownTemplateError ==
    /\ ~result.ok
    /\ result.exc = "KeyError"
    /\ result.value = <<"Unknown template: ", call.template_key>>

\* C2: build_payload raises the unknown-template error exactly when
\* template_key is not a key of the registry, whatever params holds.
C2_UnknownTemplateIffUnregistered ==
    BuildPayloadReturned => (UnknownTemplateError <=> call.template_key \notin DOMAIN templates)

\* an unregistered key, called with a parameter that a registered template
\* of a similar name would accept
C2_Witness ==
    /\ BuildPayloadReturned
    /\ call.template_key \notin DOMAIN templates
    /\ \E k \in DOMAIN call.params : call.params[k] # <<>>
    /\ UnknownTemplateError

\* params gives every required parameter a non-empty value, every optional
\* parameter the empty string, and nothing else
ExactlyRequired ==
    LET template == templates[call.template_key]
    IN /\ DOMAIN call.params = Range(template.required_params) \cup Range(template.optional_params)
       /\ \A k \in Range(template.required_params) : call.params[k] # <<>>
       /\ \A k \in Range(template.optional_params) : call.params[k] = <<>>

\* the templates whose builder passes a required value through _ensure_scheme
UrlTemplates == {"url-https", "url-http", "url-utm"}

\* the builder's own rejection of a malformed value: json.loads on the json
\* template, urlparse on the url templates
FormatError ==
    /\ ~result.ok
    /\ \/ /\ call.template_key = "json"
          /\ result.exc = "JSONDecodeError"
          /\ ~json_loads(call.params["json"]).ok
       \/ /\ call.template_key \in UrlTemplates
          /\ result = Raised("ValueError", <<"Invalid IPv6 URL">>)
          /\ \E k \in {"url", "base_url"} \cap DOMAIN call.params : ~urlparse(call.params[k]).ok

\* C3 as stated: with exactly the required parameters non-empty, build_payload
\* succeeds and returns a non-empty string.
C3_AlwaysSucceeds ==
    (BuildPayloadReturned /\ call.template_key \in DOMAIN templates /\ ExactlyRequired)
    => (result.ok /\ result.value # <<>>)

\* C3: with exactly the required parameters non-empty and the optional ones
\* empty, build_payload returns a non-empty string, or else the builder rejects
\* a value as malformed (invalid JSON for json; a netloc urlparse refuses for
\* url-https, url-http, url-utm); it raises neither registry error.
C3_SucceedsUnlessMalformed ==
    (BuildPayloadReturned /\ call.template_key \in DOMAIN templates /\ ExactlyRequired)
    => \/ result.ok /\ result.value # <<>>
       \/ FormatError

\* a template with optional parameters, all given as "", builds its payload
C3_Witness ==
    /\ BuildPayloadReturned
    /\ call.template_key \in DOMAIN templates
    /\ ExactlyRequired
    /\ templates[call.template_key].optional_params # <<>>
    /\ templates[call.template_key].required_params # <<>>
    /\ result.ok
    /\ result.value # <<>>

\* the messages of validate_payload's errors
ValidatorMessages ==
    {"Payload must be a string", "Payload cannot be empty", "Payload too large (max ",
     "Malicious content detected"}

\* C8: build_payload never applies the validator: with all required
\* parameters given, template text returns its text unchanged, also when
\* validate_payload rejects that text, and no template's failure is one of the
\* validator's errors.
C8_NoValidation ==
    (BuildPayloadReturned /\ call.template_key \in DOMAIN templates /\ AbsentOrEmpty = <<>>)
    => /\ call.template_key = "text" => result = Returned(call.params["text"])
       /\ ~result.ok => result.value[1] \notin ValidatorMessages

\* template text returns a text that validate_payload rejects as malicious
C8_Witness ==
    /\ BuildPayloadReturned
    /\ call.template_key = "text"
    /\ result.ok
    /\ result.value = call.params["text"]
    /\ validate_payload(TRUE, result.value) = Raised("ValueError", <<"Malicious content detected">>)


----------------------------------------------------------------------------
(* Properties of the validator                                             *)

ValidateReturned == pc = "returned" /\ call.op = "validate_payload" /\ call.isStr

Rejected == ~result.ok /\ result.exc = "ValueError"

\* s has the characters of lit, given in lower case, from s[i] on, in any
\* letter case
HasAt(s, i, lit) ==
    /\ i >= 1
    /\ i + Len(lit) - 1 <= Len(s)
    /\ \A k \in 1..Len(lit) : LowerChar(s[i + k - 1]) = lit[k]

\* s[i] exists and is a letter, a digit or an underscore
WordAt(s, i) == i >= 1 /\ i <= Len(s) /\ s[i] \in WordChars

\* every character of s[a..b] is in chars
AllIn(s, a, b, chars) == \A m \in a..b : s[m] \in chars

NonSpace(s, a, b) == \A m \in a..b : s[m] \notin Whitespace

\* the indicators the patterns spell out character by character
LiteralIndicators ==
    { <<"j","a","v","a","s","c","r","i","p","t",":">>, <<"d","a","t","a",":","t","e","x","t","/","h","t","m","l">>, <<"c","m","d",".","e","x","e">>, <<"p","o","w","e","r","s","h","e","l","l",".","e","x","e">>, <<"/","e","t","c","/","p","a","s","s","w","d">> }

ContainsLiteral(s) ==
    \E lit \in LiteralIndicators : \E i \in 1..Len(s) : HasAt(s, i, lit)

\* "<", whitespace or none, "script"; when bounded, no word character follows
ContainsScriptTag(s, bounded) ==
    \E i \in 1..Len(s) :
       /\ s[i] = "<"
       /\ \E j \in (i + 1)..Len(s) :
             /\ HasAt(s, j, <<"s","c","r","i","p","t">>)
             /\ AllIn(s, i + 1, j - 1, Whitespace)
             /\ bounded => ~WordAt(s, j + 6)

\* "on", one or more word characters, whitespace or none, "="; when bounded,
\* no word character precedes
ContainsOnAttribute(s, bounded) ==
    \E i \in 1..Len(s) :
       /\ HasAt(s, i, <<"o","n">>)
       /\ bounded => ~WordAt(s, i - 1)
       /\ \E j \in (i + 2)..Len(s) :
             /\ AllIn(s, i + 2, j, WordChars)
             /\ \E k \in (j + 1)..Len(s) :
                   s[k] = "=" /\ AllIn(s, j + 1, k - 1, Whitespace)

\* "rm", whitespace, "-rf"; when bounded, no word character precedes or follows
ContainsRmRf(s, bounded) ==
    \E i \in 1..Len(s) :
       /\ HasAt(s, i, <<"r","m">>)
       /\ bounded => ~WordAt(s, i - 1)
       /\ \E j \in (i + 3)..Len(s) :
             /\ HasAt(s, j, <<"-","r","f">>)
             /\ AllIn(s, i + 2, j - 1, Whitespace)
             /\ bounded => ~WordAt(s, j + 3)

\* "curl", whitespace, an argument without whitespace, whitespace or none, "|",
\* whitespace or none, "sh"; when bounded, no word character precedes or follows
ContainsCurlPipe(s, bounded) ==
    \E i \in 1..Len(s) :
       /\ HasAt(s, i, <<"c","u","r","l">>)
       /\ bounded => ~WordAt(s, i - 1)
       /\ \E a \in (i + 5)..Len(s) :
             /\ AllIn(s, i + 4, a - 1, Whitespace)
             /\ \E b \in a..Len(s) :
                   /\ NonSpace(s, a, b)
                   /\ \E bar \in (b + 1)..Len(s) :
                         /\ s[bar] = "|"
                         /\ AllIn(s, b + 1, bar - 1, Whitespace)
                         /\ \E q \in (bar + 1)..Len(s) :
                               /\ HasAt(s, q, <<"s","h">>)
                               /\ AllIn(s, bar + 1, q - 1, Whitespace)
                               /\ bounded => ~WordAt(s, q + 2)

\* an indicator occurs; when bounded, the four indicators that the patterns
\* anchor with \b count only where those anchors are met
ContainsIndicator(s, bounded) ==
    \/ ContainsLiteral(s)
    \/ ContainsScriptTag(s, bounded)
    \/ ContainsOnAttribute(s, bounded)
    \/ ContainsRmRf(s, bounded)
    \/ ContainsCurlPipe(s, bounded)

\* the substrings as listed, with single spaces: `<script`, `rm -rf`, an
\* on<word>= attribute, a `curl <arg> | sh` pipe
ContainsListed(s) ==
    \/ ContainsLiteral(s)
    \/ \E i \in 1..Len(s) : HasAt(s, i, <<"<","s","c","r","i","p","t">>) \/ HasAt(s, i, <<"r","m"," ","-","r","f">>)
    \/ \E i \in 1..Len(s) :
          /\ HasAt(s, i, <<"o","n">>)
          /\ \E j \in (i + 2)..(Len(s) - 1) : AllIn(s, i + 2, j, WordChars) /\ s[j + 1] = "="
    \/ \E i \in 1..Len(s) :
          /\ HasAt(s, i, <<"c","u","r","l"," ">>)
          /\ \E b \in (i + 5)..Len(s) : NonSpace(s, i + 5, b) /\ HasAt(s, b + 1, <<" ","|"," ","s","h">>)

\* C4 as stated: every string containing a listed substring is rejected,
\* whatever precedes or follows the occurrence.
C4_RejectedWhereverItOccurs ==
    (ValidateReturned /\ ContainsListed(call.data)) => Rejected

\* C4: validate_payload rejects every string that contains, in any letter
\* case, javascript:, data:text/html, cmd.exe, powershell.exe or /etc/passwd,
\* whatever precedes or follows; it rejects <script not followed by a word
\* character, on<word>= not preceded by one, and rm -rf and curl <arg> | sh
\* neither preceded nor followed by one.
C4_RejectedAtWordBoundaries ==
    (ValidateReturned /\ ContainsIndicator(call.data, TRUE)) => Rejected

\* a literal indicator with a word character directly before and after it is
\* rejected as malicious
C4_Witness ==
    /\ ValidateReturned
    /\ result = Raised("ValueError", <<"Malicious content detected">>)
    /\ \E lit \in LiteralIndicators : \E i \in 1..Len(call.data) :
          /\ HasAt(call.data, i, lit)
          /\ WordAt(call.data, i - 1)
          /\ WordAt(call.data, i + Len(lit))

Blank(s) == \A i \in 1..Len(s) : s[i] \in Whitespace

\* C5 as stated: every string of fewer than 4096 characters that contains
\* none of the listed substrings is accepted.
C5_AcceptedWithoutIndicator ==
    (ValidateReturned /\ Len(call.data) < MAX_PAYLOAD_LENGTH /\ ~ContainsListed(call.data))
    => result.ok

\* C5: validate_payload accepts every string of fewer than 4096 characters
\* that has a character other than whitespace and contains no indicator, the
\* indicators taken with the whitespace their patterns allow (any run of
\* whitespace for a space, none needed around the "|" or before the "=").
C5_AcceptedNonBlankWithoutIndicator ==
    (ValidateReturned /\ Len(call.data) < MAX_PAYLOAD_LENGTH /\ ~Blank(call.data)
       /\ ~ContainsIndicator(call.data, FALSE))
    => result = Returned(<<>>)

\* "on=", an attribute without a word after "on", is accepted
C5_Witness ==
    /\ ValidateReturned
    /\ result.ok
    /\ \E i \in 1..Len(call.data) : HasAt(call.data, i, <<"o","n","=">>)

\* C6: validate_payload rejects every string that is empty once whitespace is
\* trimmed, and every string of more than 4096 characters; a string of exactly
\* 4096 characters is not rejected as too large.
C6_BlankAndTooLongRejected ==
    ValidateReturned
    => /\ Blank(call.data) => result = Raised("ValueError", <<"Payload cannot be empty">>)
       /\ Len(call.data) > MAX_PAYLOAD_LENGTH => Rejected
       /\ Len(call.data) = MAX_PAYLOAD_LENGTH /\ ~result.ok
            => result.value[1] # "Payload too large (max "

\* a string of exactly 4096 characters is accepted
C6_Witness ==
    /\ ValidateReturned
    /\ Len(call.data) = MAX_PAYLOAD_LENGTH
    /\ result.ok

IsMaliciousReturned == pc = "returned" /\ call.op = "is_malicious_request"

\* C7 as stated: is_malicious_request returns true exactly when
\* validate_payload rejects the payload, and never raises.
C7_SameVerdict ==
    IsMaliciousReturned
    => /\ result.ok
       /\ result.value <=> ~validate_payload(call.isStr, call.data).ok

\* C7: is_malicious_request never raises; for a payload that is not a blank
\* string it returns true exactly when validate_payload rejects the payload;
\* a blank string validate_payload always rejects, while is_malicious_request
\* returns true for it only when it is longer than 4096 characters.
C7_SameVerdictUnlessBlank ==
    IsMaliciousReturned
    => /\ result.ok
       /\ IF call.isStr /\ Blank(call.data)
          THEN ~validate_payload(call.isStr, call.data).ok
               /\ (result.value <=> Len(call.data) > MAX_PAYLOAD_LENGTH)
          ELSE result.value <=> ~validate_payload(call.isStr, call.data).ok

\* a string within the length limit that both reject for its content
C7_Witness ==
    /\ IsMaliciousReturned
    /\ call.isStr
    /\ ~Blank(call.data)
    /\ Len(call.data) <= MAX_PAYLOAD_LENGTH
    /\ result = Returned(TRUE)
    /\ validate_payload(call.isStr, call.data) = Raised("ValueError", <<"Malicious content detected">>)

----------------------------------------------------------------------------
(* Properties of list_templates and of generate_qr                         *)

ListTemplatesReturned == pc = "returned" /\ call.op = "list_templates"

\* C9: list_templates returns every registered template exactly once, in
\* strictly ascending order of key, so 50 records, and each record's key field
\* is the registry key the record is stored under.
C9_SortedComplete ==
    ListTemplatesReturned
    => LET listed == result.value
       IN /\ Len(listed) = 50
          /\ Len(listed) = Cardinality(DOMAIN templates)
          /\ {listed[i].key : i \in 1..Len(listed)} = DOMAIN templates
          /\ \A i \in 1..Len(listed) : listed[i] = templates[listed[i].key]
          /\ \A i \in 1..(Len(listed) - 1) :
                StrLess(Spelling(listed[i].key), Spelling(listed[i + 1].key))
          /\ \A k \in DOMAIN templates : templates[k].key = k

\* the listing begins with app-deeplink, which the registry declares after 41
\* other templates, and ends with zoom-meeting
C9_Witness ==
    /\ ListTemplatesReturned
    /\ result.ok
    /\ result.value[1].key = "app-deeplink"
    /\ result.value[Len(result.value)].key = "zoom-meeting"
    /\ TemplateItems[1][1] = "text"

GenerateRun == call.op \in {"generate_qr", "cmd_generate"}

\* C10: in a run of generate_qr or of the generate command, nothing is created
\* or written up to and including the logo step, so a run that ends in
\* payload resolution, validation, encoding or the logo step leaves the
\* directory and the file as they were; the directory step writes no file; and
\* whenever the run has created the directory or written the file,
\* validate_payload accepts the payload.
C10_WriteOnlyAfterValidation ==
    GenerateRun
    => /\ call.step \in {"call", "cg_resolve", "gq_validate", "gq_encode", "gq_logo"}
            => fs = call.fs0
       /\ call.step = "gq_mkdir" => fs.file = call.fs0.file
       /\ fs # call.fs0 => validate_payload(TRUE, call.data).ok
       /\ fs.file # call.fs0.file => call.step \in {"gq_save", "cg_ascii"}

\* a run that wrote its file: the payload had been accepted, and the file
\* holds the image of that payload
C10_Witness ==
    /\ GenerateRun
    /\ pc = "returned"
    /\ result.ok
    /\ ~call.fs0.file.exists
    /\ fs.file = ImageOf(call.data)
    /\ fs.dir
    /\ validate_payload(TRUE, call.data).ok

----------------------------------------------------------------------------
(* Properties of single builders                                           *)

\* the value the caller gives parameter k: "" when k is absent
Given(k) == IF k \in DOMAIN call.params THEN call.params[k] ELSE <<>>

\* the query parameters of url-utm, each with the characters of its name
UtmNames ==
    << <<"utm_source", <<"u","t","m","_","s","o","u","r","c","e">>>>, <<"utm_medium", <<"u","t","m","_","m","e","d","i","u","m">>>>,
       <<"utm_campaign", <<"u","t","m","_","c","a","m","p","a","i","g","n">>>>, <<"utm_term", <<"u","t","m","_","t","e","r","m">>>>,
       <<"utm_content", <<"u","t","m","_","c","o","n","t","e","n","t">>>> >>

\* name=value pairs of the parameters in names that have a non-empty value
GivenPairs(names) ==
    SelectSeq([i \in 1..Len(names) |-> <<names[i][2], Given(names[i][1])>>],
              LAMBDA kv : kv[2] # <<>>)

\* C11: url-utm gives a base_url without a scheme the https scheme and keeps
\* its host: for base_url example.com the payload is https://example.com, "?",
\* and the URL-encoded utm_source and utm_medium, then utm_campaign, utm_term
\* and utm_content where they are given non-empty; with utm_source=news and
\* utm_medium=email it is https://example.com?utm_source=news&utm_medium=email.
C11_UtmKeepsHost ==
    (BuildPayloadReturned /\ call.template_key = "url-utm" /\ AbsentOrEmpty = <<>>
       /\ call.params["base_url"] = <<"e","x","a","m","p","l","e",".","c","o","m">>)
    => result = Returned(<<"h","t","t","p","s",":","/","/","e","x","a","m","p","l","e",".","c","o","m","?">>
                           \o urlencode(GivenPairs(UtmNames)))

\* the four WiFi templates and the auth each passes to _build_wifi
WifiAuth ==
    ("wifi-wpa" :> <<"W","P","A">>) @@ ("wifi-wpa2" :> <<"W","P","A","2">>) @@ ("wifi-wep" :> <<"W","E","P">>)
      @@ ("wifi-nopass" :> <<"n","o","p","a","s","s">>)

\* hidden, lower-cased, is one of 1, true, yes
HiddenAsked ==
    \E v \in {<<"1">>, <<"t","r","u","e">>, <<"y","e","s">>} :
       /\ Len(Given("hidden")) = Len(v)
       /\ \A i \in 1..Len(v) : LowerChar(Given("hidden")[i]) = v[i]

\* C12: a WiFi template's payload is WIFI:T:<auth>;S:<ssid>; then P:<password>;
\* exactly when auth is not nopass, then H:true; exactly when hidden
\* lower-cases to 1, true or yes, then ";"; wifi-wpa2 with ssid Home and
\* password secret1 gives WIFI:T:WPA2;S:Home;P:secret1;; and wifi-nopass emits
\* no P: field whatever password it is passed.
C12_WifiPayload ==
    (BuildPayloadReturned /\ call.template_key \in DOMAIN WifiAuth /\ AbsentOrEmpty = <<>>)
    => /\ result = Returned(
              <<"W","I","F","I",":","T",":">> \o WifiAuth[call.template_key] \o <<";","S",":">> \o call.params["ssid"] \o <<";">>
                \o (IF call.template_key # "wifi-nopass"
                    THEN <<"P",":">> \o call.params["password"] \o <<";">> ELSE <<>>)
                \o (IF HiddenAsked THEN <<"H",":","t","r","u","e",";">> ELSE <<>>)
                \o <<";">>)
       /\ (call.template_key = "wifi-wpa2" /\ DOMAIN call.params = {"ssid", "password"}
             /\ call.params["ssid"] = <<"H","o","m","e">> /\ call.params["password"] = <<"s","e","c","r","e","t","1">>)
            => result.value = <<"W","I","F","I",":","T",":","W","P","A","2",";","S",":","H","o","m","e",";","P",":","s","e","c","r","e","t","1",";",";">>
       /\ call.template_key = "wifi-nopass"
            => \A i \in 1..Len(result.value) : ~HasAt(result.value, i, <<"p",":">>)

\* wifi-nopass is passed a password and a hidden flag in capitals
C12_Witness ==
    /\ BuildPayloadReturned
    /\ call.template_key = "wifi-nopass"
    /\ Given("password") # <<>>
    /\ result.ok
    /\ result.value = <<"W","I","F","I",":","T",":","n","o","p","a","s","s",";","S",":">> \o call.params["ssid"] \o <<";",";">>

\* whether s, read as JSON text from s[i] on, has whitespace outside its
\* string literals; inStr tells whether s[i] lies within a string literal
RECURSIVE BareWhitespace(_, _, _)
BareWhitespace(s, i, inStr) ==
    IF i > Len(s) THEN FALSE
    ELSE IF inStr
    THEN IF s[i] = "\\" THEN BareWhitespace(s, i + 2, TRUE)
         ELSE BareWhitespace(s, i + 1, s[i] # "\"")
    ELSE IF s[i] \in JsonWhitespace THEN TRUE
    ELSE BareWhitespace(s, i + 1, s[i] = "\"")

JsonCall == BuildPayloadReturned /\ call.template_key = "json" /\ Given("json") # <<>>

\* C13: with a non-empty json parameter, template json returns the minified
\* re-serialization of the text when the text is valid JSON: it denotes the
\* same value, carries no whitespace outside string literals, and passed
\* through the template again comes back unchanged; {"a":1, "b":2} gives
\* {"a":1,"b":2}.  When the text is not valid JSON the call raises
\* JSONDecodeError, not the registry's missing-parameter error.
C13_JsonMinifiedIdempotent ==
    JsonCall
    => IF json_loads(Given("json")).ok
       THEN /\ result.ok
            /\ json_loads(result.value).ok
            /\ json_loads(result.value).val = json_loads(Given("json")).val
            /\ ~BareWhitespace(result.value, 1, FALSE)
            /\ build_payload("json", "json" :> result.value) = result
            /\ Given("json") = <<"{","\"","a","\"",":","1",","," ","\"","b","\"",":","2","}">> => result.value = <<"{","\"","a","\"",":","1",",","\"","b","\"",":","2","}">>
       ELSE /\ ~result.ok
            /\ result.exc = "JSONDecodeError"
            /\ result.value[1] # "Missing required params for "

\* a text with whitespace between its tokens is returned without it
C13_Witness ==
    /\ JsonCall
    /\ BareWhitespace(Given("json"), 1, FALSE)
    /\ result.ok
    /\ result.value # Given("json")
    /\ Len(result.value) > 2

\* the forced scheme of the two scheme-rewriting templates
ForcedScheme == ("url-https" :> <<"h","t","t","p","s">>) @@ ("url-http" :> <<"h","t","t","p">>)

\* whether url begins with a scheme and "://", the scheme ending before url[i]
SchemeEndsAt(url, i) ==
    /\ i > 1
    /\ OccursAt(url, i, <<":","/","/">>)
    /\ \A j \in 1..(i - 1) : url[j] \in SchemeChars

\* url without its scheme and "//": host, path, query and fragment
AfterScheme(url) ==
    IF \E i \in 1..Len(url) : SchemeEndsAt(url, i)
    THEN From(url, 3 + CHOOSE i \in 1..Len(url) : SchemeEndsAt(url, i))
    ELSE IF StartsWith(url, <<"/","/">>) THEN From(url, 3)
    ELSE url

\* host, path and query of url: what follows the scheme, up to the fragment
HostPathQuery(url) ==
    LET rest == AfterScheme(url)
        hash == Find(rest, "#", 1)
    IN IF hash > 0 THEN SubSeq(rest, 1, hash - 1) ELSE rest

\* C14: url-https and url-http rewrite only the scheme: the payload is the
\* forced scheme, "://", and the host, path and query of the url given, also
\* for a url without a scheme (example.com/a?b=c) or with host:port and no
\* scheme; and the template applied to its payload returns that payload.
C14_OnlySchemeRewritten ==
    (BuildPayloadReturned /\ call.template_key \in DOMAIN ForcedScheme /\ AbsentOrEmpty = <<>>
       /\ "[" \notin Range(call.params["url"]))
    => /\ result.ok
       /\ StartsWith(result.value, ForcedScheme[call.template_key] \o <<":","/","/">>)
       /\ HostPathQuery(result.value) = HostPathQuery(call.params["url"])
       /\ build_payload(call.template_key, "url" :> result.value) = result

\* the optional parameters that have a declared default, per template, each
\* with the characters of its name and its default
Defaults ==
    ("otp-totp" :> { <<"digits", <<"d","i","g","i","t","s">>, <<"6">>>>, <<"period", <<"p","e","r","i","o","d">>, <<"3","0">>>> })
      @@ ("otp-hotp" :> { <<"digits", <<"d","i","g","i","t","s">>, <<"6">>>> })
      @@ ("upi" :> { <<"cu", <<"c","u">>, <<"I","N","R">>>> })

\* payload's query string has the pair name=value
HasQueryPair(payload, name, value) ==
    \E i \in 2..Len(payload) :
       /\ payload[i - 1] \in {"?", "&"}
       /\ OccursAt(payload, i, name \o <<"=">> \o value)
       /\ LET next == i + Len(name) + 1 + Len(value)
          IN next = Len(payload) + 1 \/ (next <= Len(payload) /\ payload[next] = "&")

\* C15: an optional parameter with a declared default takes the default when
\* the caller gives no value, absent or "": otp-totp carries digits=6 and
\* period=30, otp-hotp digits=6 and upi cu=INR unless a non-empty value is
\* given, which is then carried instead.
C15_DefaultWhenNoValue ==
    (BuildPayloadReturned /\ call.template_key \in DOMAIN Defaults /\ AbsentOrEmpty = <<>>)
    => /\ result.ok
       /\ \A d \in Defaults[call.template_key] :
             HasQueryPair(result.value, d[2],
                          IF Given(d[1]) = <<>> THEN d[3] ELSE quote_plus(Given(d[1])))

----------------------------------------------------------------------------
(* Properties of the registry as a whole                                   *)

\* C16: whatever calls have been made, and whether they returned or raised,
\* the registry holds the templates it was built with (same keys, same key,
\* description, required and optional parameters of each), the pattern list
\* is the compiled list, and a params mapping passed to build_payload is as
\* the caller passed it.
C16_RegistryPatternsParamsUnchanged ==
    /\ DOMAIN templates = {TemplateItems[i][1] : i \in DOMAIN TemplateItems}
    /\ \A i \in DOMAIN TemplateItems : templates[TemplateItems[i][1]] = TemplateItems[i][2]
    /\ patterns = _compile_patterns
    /\ call.op = "build_payload" => call.params = call.params0

\* a failing build_payload call with parameters, made after earlier calls
\* that left a file behind
C16_Witness ==
    /\ BuildPayloadReturned
    /\ ~result.ok
    /\ \E k \in DOMAIN call.params : call.params[k] = <<>>
    /\ \E k \in DOMAIN call.params : call.params[k] # <<>>
    /\ fs.file.exists
    /\ templates = TEMPLATES

\* the error build_payload raises for missing required parameters
MissingParamError ==
    /\ ~result.ok
    /\ result.exc = "ValueError"
    /\ Len(result.value) >= 3
    /\ result.value[1] = "Missing required params for "

\* C17: build_payload checks in a fixed order.  An unregistered key gives
\* the unknown-template error whatever the params are, never the
\* missing-parameter error; a registered key with a required parameter
\* absent or empty gives the missing-parameter error and never an error of
\* the builder; a builder's format error is therefore only seen for a
\* registered key whose required parameters are all non-empty.
C17_ChecksInOrder ==
    BuildPayloadReturned =>
       /\ call.template_key \notin DOMAIN templates
            => UnknownTemplateError /\ ~MissingParamError
       /\ (call.template_key \in DOMAIN templates /\ AbsentOrEmpty # <<>>)
            => /\ MissingParamError
               /\ result.exc # "JSONDecodeError"
               /\ result.value # <<"Invalid IPv6 URL">>
       /\ (~result.ok /\ ~UnknownTemplateError /\ ~MissingParamError)
            => /\ call.template_key \in DOMAIN templates
               /\ AbsentOrEmpty = <<>>
               /\ FormatError

\* the json template given an empty document: parsing it would fail, and the
\* missing-parameter error is what the caller gets
C17_Witness ==
    /\ BuildPayloadReturned
    /\ call.template_key = "json"
    /\ "json" \in DOMAIN call.params
    /\ call.params["json"] = <<>>
    /\ ~json_loads(call.params["json"]).ok
    /\ MissingParamError

\* the entries of a mapping whose names the template declares
DeclaredOnly(params, template) ==
    [k \in DOMAIN params \cap (Range(template.required_params) \cup Range(template.optional_params))
       |-> params[k]]

\* C18: the outcome of build_payload, returned string or failure, is that of
\* the call with every undeclared key removed from the mapping, so two
\* mappings that agree on the declared parameters have the same outcome.
C18_OnlyDeclaredParamsMatter ==
    (BuildPayloadReturned /\ call.template_key \in DOMAIN templates)
    => result = build_payload(call.template_key,
                              DeclaredOnly(call.params, templates[call.template_key]))

\* an open network given a password, which its template does not declare
C18_Witness ==
    /\ BuildPayloadReturned
    /\ call.template_key = "wifi-nopass"
    /\ "password" \in DOMAIN call.params
    /\ call.params["password"] # <<>>
    /\ "password" \notin DOMAIN DeclaredOnly(call.params, templates["wifi-nopass"])
    /\ result.ok

\* C19: whatever the params, eicar-test returns the EICAR test string and
\* safe-demo-sentry returns https://sentry.io; validate_payload accepts both
\* strings and is_malicious_request is false for both.
C19_FixedPayloadsAccepted ==
    (BuildPayloadReturned /\ call.template_key \in {"eicar-test", "safe-demo-sentry"})
    => /\ result = Returned(IF call.template_key = "eicar-test"
                            THEN <<"X","5","O","!","P","%","@","A","P","[","4","\\","P","Z","X","5","4","(","P","^",")","7","C","C",")","7","}","$","E","I","C","A","R","-","S","T","A","N","D","A","R","D","-","A","N","T","I","V","I","R","U","S","-","T","E","S","T","-","F","I","L","E","!","$","H","+","H","*">>
                            ELSE <<"h","t","t","p","s",":","/","/","s","e","n","t","r","y",".","i","o">>)
       /\ validate_payload(TRUE, result.value).ok
       /\ ~is_malicious_request(TRUE, result.value)

\* the EICAR template called with a non-empty mapping
C19_Witness ==
    /\ BuildPayloadReturned
    /\ call.template_key = "eicar-test"
    /\ \E k \in DOMAIN call.params : call.params[k] # <<>>
    /\ result.ok
    /\ Len(result.value) = 68

=============================================================================
